---------------------------- MODULE Spec2Model ----------------------------
(***************************************************************************)
(* State-machine model of the vault-mvp program                            *)
(* (programs/vault-mvp/src: instructions.rs, contexts.rs, state.rs,         *)
(* constants.rs).  One action per instruction handler; an instruction is   *)
(* atomic: if any step of the handler fails (a require!, an unwrap on None, *)
(* a failing token CPI, an account constraint), the ledger discards every   *)
(* effect of the transaction, so the action leaves the program state as it  *)
(* was.                                                                    *)
(*                                                                         *)
(* Numbers.  TLC computes with 32-bit integers, so the model keeps the      *)
(* program's arithmetic but narrows the u64 width to U64_BITS bits          *)
(* (checked_add / checked_sub fail beyond U64_MAX, `as u64` reduces modulo  *)
(* 2^U64_BITS).  u128 intermediates are exact integers: inside the input    *)
(* bounds a product of two modelled u64 values never exceeds the modelled   *)
(* u128 range.  Timestamps are counted in whole days: every unix timestamp  *)
(* of the model is a multiple of SECONDS_PER_DAY, so the common factor      *)
(* 86400 cancels exactly in                                                 *)
(*   total_assets * bps * elapsed / (MAX_BPS * SECONDS_PER_YEAR).           *)
(***************************************************************************)
EXTENDS Integers, Sequences, FiniteSets, TLC

VARIABLES
    factory,    \* the Factory account (state.rs Factory)
    vault,      \* the Vault account of vault_index 0 (state.rs Vault)
    usdc,       \* settlement-token balances: owner -> amount ("vault" = custody PDA)
    shares,     \* vault-token balances: owner -> amount ("vault" = the seed account)
    asset,      \* balances of one underlying asset: owner -> amount
    vault_pdas, \* the vault_index of every Vault account that exists
    now         \* Clock::get()?.unix_timestamp, in days

vars == <<factory, vault, usdc, shares, asset, vault_pdas, now>>

----------------------------------------------------------------------------
(* Program constants *)

MAX_BPS == 10000
MAX_ENTRY_EXIT_BPS_LIMIT == 1000
MAX_MANAGEMENT_BPS_LIMIT == 2000
MIN_UNDERLYING_ASSETS == 1
MAX_UNDERLYING_ASSETS == 240
MAX_VAULT_NAME_LENGTH == 50
MAX_VAULT_SYMBOL_LENGTH == 30
DEFAULT_VAULT_CREATION_FEE_USDC == 10000000
SEED_SUPPLY == 1000000
VAULT_MINT_DECIMALS == 6
DAYS_PER_YEAR == 365
U16_BITS == 16
USD_PRICE_SCALE == 1000000

\* scale = 10u128.pow(vault_mint.decimals)
SCALE == 10 ^ VAULT_MINT_DECIMALS

----------------------------------------------------------------------------
(* Bounds of the model *)

U64_BITS == 24
MaxNow == 950
MaxDelay == 950
MaxTotalAssets == 500
UserFunds == 400
CreatorFunds == 8
AssetFunds == 1
MaxFeeSupply == 500
MaxVaults == 1

U64_MAX == (2 ^ U64_BITS) - 1
U16_MAX == (2 ^ U16_BITS) - 1

\* `x as u64` of a u128 value
AsU64(x) == x % (U64_MAX + 1)
FitsU64(x) == x >= 0 /\ x <= U64_MAX


----------------------------------------------------------------------------
(* Identities, accounts and inputs *)

FADMIN == "fadmin"          \* signer of initialize_factory
PLATFORM == "platform"      \* factory.fee_recipient
CREATOR == "creator"        \* signer of create_vault (vault.admin)
USER == "user"              \* a depositor with no role

Identities == {FADMIN, PLATFORM, CREATOR, USER}
VAULT_PDA == "vault"
Owners == Identities \cup {VAULT_PDA}
NOBODY == "nobody"

\* One token account per owner and mint; an instruction names an account by
\* its owner, and the accounts one instruction names are distinct accounts.
Depositors == {USER}
Callers == {CREATOR, USER}
AdminCallers == {FADMIN, CREATOR, USER}
\* (vault_admin account, fee_recipient account) pairs a fee instruction is given
Destinations == {<<CREATOR, PLATFORM>>, <<USER, PLATFORM>>}
\* the fee_recipient_stablecoin_account a redeemer names
RedeemFeeAccounts == {PLATFORM}

\* The requests the transitions are taken with.
SharePrices == {1, 1000000}
DepositAmounts == {0, 400}
FeeAmounts == {0, 100}
TransferAmounts == {300}
TickDays == {950}
AssetPrices == {1000000}

\* (entry_fee_bps, exit_fee_bps, vault_creation_fee_usdc, min_management_fee_bps,
\*  max_management_fee_bps, vault_creator_fee_ratio_bps, platform_fee_ratio_bps)
FeeParams(e, x, c, mn, mx, cr, pr) ==
    [entry_fee_bps |-> e, exit_fee_bps |-> x, vault_creation_fee_usdc |-> c,
     min_management_fee_bps |-> mn, max_management_fee_bps |-> mx,
     vault_creator_fee_ratio_bps |-> cr, platform_fee_ratio_bps |-> pr]

FactoryFeeInputs ==
    { FeeParams(25, 100, 5, 50, 2000, 7000, 3000),
      FeeParams(1001, 100, 5, 50, 2000, 7000, 3000),
      FeeParams(25, 100, 5, 300, 50, 7000, 3000),
      FeeParams(25, 100, 5, 50, 2001, 7000, 3000),
      FeeParams(25, 100, 5, 50, 2000, 7000, 2000),
      FeeParams(25, 100, 5, 50, 2000, 10000, 0),
      FeeParams(25, 100, 5, 50, 2000, 40000, 35536),
      FeeParams(25, 100, 5, 50, 1000, 7000, 3000) }

\* initialize_factory is also tried with a zero creation fee, which
\* create_vault replaces by DEFAULT_VAULT_CREATION_FEE_USDC.
InitialFeeInputs == FactoryFeeInputs \cup {FeeParams(25, 100, 0, 50, 2000, 7000, 3000)}

\* (vault_name.len(), vault_symbol.len(), underlying_assets as the list of
\*  mint_bps, management_fees)
VaultParams(n, s, a, m) ==
    [vault_name |-> n, vault_symbol |-> s, underlying_assets |-> a,
     management_fees |-> m]

CreateVaultInputs ==
    { VaultParams(4, 3, <<6000, 4000>>, 2000),
      VaultParams(51, 3, <<6000, 4000>>, 100),
      VaultParams(4, 31, <<6000, 4000>>, 100),
      VaultParams(4, 3, <<>>, 100),
      VaultParams(4, 3, <<6000, 3000>>, 100),
      VaultParams(4, 3, <<6000, 4000>>, 2001) }

----------------------------------------------------------------------------
(* Account records *)

NoFactory ==
    [initialized |-> FALSE, admin |-> NOBODY, fee_recipient |-> NOBODY,
     vault_count |-> 0, state |-> "Active",
     entry_fee_bps |-> 0, exit_fee_bps |-> 0, vault_creation_fee_usdc |-> 0,
     min_management_fee_bps |-> 0, max_management_fee_bps |-> 0,
     vault_creator_fee_ratio_bps |-> 0, platform_fee_ratio_bps |-> 0]

NoVault ==
    [initialized |-> FALSE, vault_index |-> 0, factory |-> NOBODY, admin |-> NOBODY,
     vault_name |-> 0, vault_symbol |-> 0, underlying_assets |-> <<>>,
     management_fees |-> 0, state |-> "Active",
     total_assets |-> 0, total_supply |-> 0, created_at |-> 0,
     last_fee_accrual_ts |-> 0, accrued_management_fees_usdc |-> 0]

Init ==
    /\ factory = NoFactory
    /\ vault = NoVault
    /\ usdc = [o \in Owners |->
                 IF o = USER THEN UserFunds
                 ELSE IF o = CREATOR THEN CreatorFunds ELSE 0]
    /\ shares = [o \in Owners |-> 0]
    /\ asset = [o \in Owners |-> IF o = VAULT_PDA THEN AssetFunds ELSE 0]
    /\ vault_pdas = {}
    /\ now = 0

----------------------------------------------------------------------------
(* The token program (anchor_spl::token): transfer, mint_to, burn *)

RECURSIVE SumOver(_, _)
SumOver(bal, S) ==
    IF S = {} THEN 0
    ELSE LET o == CHOOSE x \in S : TRUE IN bal[o] + SumOver(bal, S \ {o})

\* Mint.supply of the vault mint
MintSupply(bal) == SumOver(bal, Owners)

TransferOk(bal, from, to, amt) ==
    /\ bal[from] >= amt
    /\ (from = to \/ FitsU64(bal[to] + amt))

Transfer(bal, from, to, amt) ==
    [bal EXCEPT ![from] = @ - amt, ![to] = @ + amt]

MintToOk(bal, to, amt) ==
    /\ FitsU64(MintSupply(bal) + amt)
    /\ FitsU64(bal[to] + amt)

MintTo(bal, to, amt) == [bal EXCEPT ![to] = @ + amt]

BurnOk(bal, from, amt) == bal[from] >= amt

\* Faulty variant of Burn, told apart by C33: the tokens stay.
BurnNothing(bal, from, amt) == bal

Burn(bal, from, amt) == [bal EXCEPT ![from] = @ - amt]

\* ((a as u128).checked_mul(b).unwrap().checked_div(c).unwrap()) as u64
MulDivU64(a, b, c) == AsU64((a * b) \div c)

----------------------------------------------------------------------------
(* Factory instructions *)

\* a + b on two u16 values.  The sum is a plain `+`: beyond U16_MAX it panics
\* in a build with overflow checks and wraps modulo 2^16 in one without;
\* -1 stands for the panic.
AddU16(a, b, overflow_checks) ==
    IF a + b <= U16_MAX THEN a + b
    ELSE IF overflow_checks THEN -1
    ELSE (a + b) % (U16_MAX + 1)

\* The require! chain shared by initialize_factory and update_factory_fees:
\* the error of the first failing check, "" when all pass.
FeeParamsError(p, overflow_checks) ==
    IF ~(p.entry_fee_bps <= MAX_ENTRY_EXIT_BPS_LIMIT
         /\ p.exit_fee_bps <= MAX_ENTRY_EXIT_BPS_LIMIT) THEN "FeesTooHigh"
    ELSE IF ~(p.min_management_fee_bps <= p.max_management_fee_bps) THEN "InvalidFeeRange"
    ELSE IF ~(p.max_management_fee_bps <= MAX_MANAGEMENT_BPS_LIMIT) THEN "FeesTooHigh"
    ELSE IF AddU16(p.vault_creator_fee_ratio_bps, p.platform_fee_ratio_bps,
                   overflow_checks) = -1 THEN "Panic"
    ELSE IF ~(AddU16(p.vault_creator_fee_ratio_bps, p.platform_fee_ratio_bps,
                     overflow_checks) = MAX_BPS)
        THEN "InvalidFeeRange"
    ELSE IF ~(p.vault_creator_fee_ratio_bps > 0 /\ p.platform_fee_ratio_bps > 0)
        THEN "InvalidFeeRange"
    ELSE ""

WithFees(f, p) ==
    [f EXCEPT !.entry_fee_bps = p.entry_fee_bps,
              !.exit_fee_bps = p.exit_fee_bps,
              !.vault_creation_fee_usdc = p.vault_creation_fee_usdc,
              !.min_management_fee_bps = p.min_management_fee_bps,
              !.max_management_fee_bps = p.max_management_fee_bps,
              !.vault_creator_fee_ratio_bps = p.vault_creator_fee_ratio_bps,
              !.platform_fee_ratio_bps = p.platform_fee_ratio_bps]

\* The factory initialize_factory(p) leaves: the factory PDA is `init`, so a
\* second call fails; a failed call leaves the factory as it is.
initialize_factory_result(p, overflow_checks) ==
    LET err == IF factory.initialized THEN "AccountAlreadyInitialized"
               ELSE FeeParamsError(p, overflow_checks)
    IN [ok |-> err = "", err |-> err,
        factory |-> IF err = "" THEN
                        WithFees([NoFactory EXCEPT !.initialized = TRUE,
                                                   !.admin = FADMIN,
                                                   !.fee_recipient = PLATFORM,
                                                   !.vault_count = 0,
                                                   !.state = "Active"], p)
                    ELSE factory]

\* overflow_checks: the build of the program either has them or has not.
initialize_factory ==
    \E p \in InitialFeeInputs, overflow_checks \in BOOLEAN :
        /\ factory' = initialize_factory_result(p, overflow_checks).factory
        /\ UNCHANGED <<vault_pdas, vault, usdc, shares, asset, now>>

\* update_factory_fees; UpdateFactoryFees requires factory.admin == admin.key().
update_factory_fees_result(signer, p, overflow_checks) ==
    LET err == IF ~factory.initialized THEN "AccountNotInitialized"
               ELSE IF factory.admin # signer THEN "Unauthorized"
               ELSE FeeParamsError(p, overflow_checks)
    IN [ok |-> err = "", err |-> err,
        factory |-> IF err = "" THEN WithFees(factory, p) ELSE factory]

update_factory_fees ==
    \E signer \in {FADMIN, USER}, p \in FactoryFeeInputs, overflow_checks \in BOOLEAN :
        /\ factory' = update_factory_fees_result(signer, p, overflow_checks).factory
        /\ UNCHANGED <<vault_pdas, vault, usdc, shares, asset, now>>

\* update_factory_admin; UpdateFactoryAdmin requires factory.admin ==
\* admin.key() and takes new_admin unchecked.
update_factory_admin_result(signer, new_admin) ==
    LET err == IF ~factory.initialized THEN "AccountNotInitialized"
               ELSE IF factory.admin # signer THEN "Unauthorized"
               ELSE ""
    IN [ok |-> err = "", err |-> err,
        factory |-> IF err = "" THEN [factory EXCEPT !.admin = new_admin]
                    ELSE factory]

update_factory_admin ==
    \E signer \in Identities, new_admin \in Identities :
        /\ factory' = update_factory_admin_result(signer, new_admin).factory
        /\ UNCHANGED <<vault_pdas, vault, usdc, shares, asset, now>>

----------------------------------------------------------------------------
(* create_vault *)

\* AddU16 on two partial sums, -1 once an addition has panicked.
AddSumsU16(a, b, overflow_checks) ==
    IF a = -1 \/ b = -1 THEN -1 ELSE AddU16(a, b, overflow_checks)

RECURSIVE SumBpsOver(_, _, _, _)
\* The u16 sum of a[lo..hi].  The code folds `+` from the left; the entries
\* are not negative, so the fold panics exactly when the whole sum passes
\* U16_MAX, and addition modulo 2^16 is associative: summing the two halves
\* gives the fold's outcome.
SumBpsOver(a, lo, hi, overflow_checks) ==
    IF lo > hi THEN 0
    ELSE IF lo = hi THEN a[lo]
    ELSE LET mid == (lo + hi) \div 2
         IN AddSumsU16(SumBpsOver(a, lo, mid, overflow_checks),
                       SumBpsOver(a, mid + 1, hi, overflow_checks),
                       overflow_checks)

\* underlying_assets.iter().map(|asset| asset.mint_bps).sum() into a u16
SumBps(a, overflow_checks) == SumBpsOver(a, 1, Len(a), overflow_checks)

\* Faulty variant of CreateVaultError, told apart by C25: management_fees is
\* not compared with the factory's bounds.
CreateVaultErrorNoFeeBounds(p, overflow_checks) ==
    IF ~(p.vault_name <= MAX_VAULT_NAME_LENGTH) THEN "VaultNameTooLong"
    ELSE IF ~(p.vault_symbol <= MAX_VAULT_SYMBOL_LENGTH) THEN "VaultSymbolTooLong"
    ELSE IF ~(Len(p.underlying_assets) >= MIN_UNDERLYING_ASSETS
              /\ Len(p.underlying_assets) <= MAX_UNDERLYING_ASSETS)
        THEN "InvalidUnderlyingAssets"
    ELSE IF SumBps(p.underlying_assets, overflow_checks) = -1 THEN "Panic"
    ELSE IF ~(SumBps(p.underlying_assets, overflow_checks) = MAX_BPS)
        THEN "InvalidBpsSum"
    ELSE ""

CreateVaultError(p, overflow_checks) ==
    IF ~(p.vault_name <= MAX_VAULT_NAME_LENGTH) THEN "VaultNameTooLong"
    ELSE IF ~(p.vault_symbol <= MAX_VAULT_SYMBOL_LENGTH) THEN "VaultSymbolTooLong"
    ELSE IF ~(Len(p.underlying_assets) >= MIN_UNDERLYING_ASSETS
              /\ Len(p.underlying_assets) <= MAX_UNDERLYING_ASSETS)
        THEN "InvalidUnderlyingAssets"
    ELSE IF ~(p.management_fees >= factory.min_management_fee_bps
              /\ p.management_fees <= factory.max_management_fee_bps)
        THEN "InvalidManagementFees"
    ELSE IF SumBps(p.underlying_assets, overflow_checks) = -1 THEN "Panic"
    ELSE IF ~(SumBps(p.underlying_assets, overflow_checks) = MAX_BPS)
        THEN "InvalidBpsSum"
    ELSE ""

CreationFee ==
    IF factory.vault_creation_fee_usdc = 0 THEN DEFAULT_VAULT_CREATION_FEE_USDC
    ELSE factory.vault_creation_fee_usdc

\* Faulty variant of NewVault, told apart by C3: the seed mint is not added
\* to total_supply.
NewVaultUnseeded(p, admin, index, t) ==
    [initialized |-> TRUE, vault_index |-> index, factory |-> "factory",
     admin |-> admin, vault_name |-> p.vault_name, vault_symbol |-> p.vault_symbol,
     underlying_assets |-> p.underlying_assets,
     management_fees |-> p.management_fees, state |-> "Active",
     total_assets |-> 0, total_supply |-> 0, created_at |-> t,
     last_fee_accrual_ts |-> t, accrued_management_fees_usdc |-> 0]

\* Faulty variant of NewVault, told apart by C22: the vault is created Closed.
NewVaultClosed(p, admin, index, t) ==
    [initialized |-> TRUE, vault_index |-> index, factory |-> "factory",
     admin |-> admin, vault_name |-> p.vault_name, vault_symbol |-> p.vault_symbol,
     underlying_assets |-> p.underlying_assets,
     management_fees |-> p.management_fees, state |-> "Closed",
     total_assets |-> 0, total_supply |-> 0 + SEED_SUPPLY, created_at |-> t,
     last_fee_accrual_ts |-> t, accrued_management_fees_usdc |-> 0]

\* The vault account as create_vault leaves it: the fields of the
\* initialisation block, then the seed mint added to total_supply.
NewVault(p, admin, index, t) ==
    [initialized |-> TRUE, vault_index |-> index, factory |-> "factory",
     admin |-> admin, vault_name |-> p.vault_name, vault_symbol |-> p.vault_symbol,
     underlying_assets |-> p.underlying_assets,
     management_fees |-> p.management_fees, state |-> "Active",
     total_assets |-> 0, total_supply |-> 0 + SEED_SUPPLY, created_at |-> t,
     last_fee_accrual_ts |-> t, accrued_management_fees_usdc |-> 0]

\* Faulty variant of NextVaultCount, told apart by C23: the count stays.
NextVaultCountSame(vault_count) == vault_count

\* factory.vault_count.checked_add(1).unwrap()
NextVaultCount(vault_count) == vault_count + 1

\* create_vault signed by signer: the vault PDA of seed vault_count is `init`
\* and must not exist yet; then the validations, vault_index = vault_count,
\* vault_count + 1, the creation fee to the factory admin, the vault record.
\* The outcome names the factory and the stablecoin balances the call leaves,
\* and the index and record of the vault it creates.
create_vault_result(signer, p, overflow_checks) ==
    LET err == IF ~factory.initialized THEN "AccountNotInitialized"
               ELSE IF factory.vault_count \in vault_pdas THEN "AccountAlreadyInUse"
               ELSE IF CreateVaultError(p, overflow_checks) # ""
                    THEN CreateVaultError(p, overflow_checks)
               ELSE IF ~TransferOk(usdc, signer, factory.admin, CreationFee)
                    THEN "TokenInsufficientFunds"
               ELSE ""
        vault_index == factory.vault_count
    IN [ok |-> err = "", err |-> err,
        factory |-> IF err = ""
                    THEN [factory EXCEPT !.vault_count = NextVaultCount(@)]
                    ELSE factory,
        usdc |-> IF err = "" THEN Transfer(usdc, signer, factory.admin, CreationFee)
                 ELSE usdc,
        vault_index |-> vault_index,
        vault |-> IF err = "" THEN NewVault(p, signer, vault_index, now) ELSE NoVault]

\* create_vault and the seed mint to the new vault's own token account.  The
\* model follows the vault of index 0; vaults of higher index only count.
create_vault ==
    \E p \in CreateVaultInputs, overflow_checks \in BOOLEAN :
        LET r == create_vault_result(CREATOR, p, overflow_checks)
            first == r.ok /\ r.vault_index = 0
        IN /\ (r.ok => factory.vault_count < MaxVaults)
           /\ factory' = r.factory
           /\ usdc' = r.usdc
           /\ vault' = IF first THEN r.vault ELSE vault
           /\ shares' = IF first THEN MintTo(shares, VAULT_PDA, SEED_SUPPLY)
                        ELSE shares
           /\ vault_pdas' = IF r.ok THEN vault_pdas \cup {r.vault_index} ELSE vault_pdas
           /\ UNCHANGED <<asset, now>>

----------------------------------------------------------------------------
(* Management-fee accrual *)

\* fee_numerator / fee_denominator of accrue_management_fees, as u64.  The
\* elapsed time is in days: elapsed_seconds = 86400 * elapsed, and
\* SECONDS_PER_YEAR = 86400 * DAYS_PER_YEAR, so the quotient is the code's.
AccruedFee(v, t) ==
    AsU64((v.total_assets * v.management_fees * (t - v.last_fee_accrual_ts))
          \div (MAX_BPS * DAYS_PER_YEAR))

\* checked_sub(accrued).unwrap_or(total_assets)
TotalAssetsAfterFee(total_assets, accrued) ==
    IF accrued <= total_assets THEN total_assets - accrued ELSE total_assets

\* checked_add(accrued).unwrap_or(accrued_management_fees_usdc)
AccruedAfterFee(accrued_fees, accrued) ==
    IF FitsU64(accrued_fees + accrued) THEN accrued_fees + accrued ELSE accrued_fees

\* Faulty variant of accrue_management_fees, told apart by C15: the timestamp
\* is advanced only when a fee is charged.
accrue_stamping_only_charges(v, t) ==
    IF t <= v.last_fee_accrual_ts THEN v
    ELSE IF v.management_fees = 0 \/ v.total_assets = 0 THEN v
    ELSE IF AccruedFee(v, t) > 0
        THEN [v EXCEPT
                !.total_assets = TotalAssetsAfterFee(@, AccruedFee(v, t)),
                !.accrued_management_fees_usdc = AccruedAfterFee(@, AccruedFee(v, t)),
                !.last_fee_accrual_ts = t]
    ELSE v

\* Faulty variant of accrue_management_fees, told apart by C16: a charged fee
\* does not advance the timestamp.
accrue_without_stamp(v, t) ==
    IF t <= v.last_fee_accrual_ts THEN v
    ELSE IF v.management_fees = 0 \/ v.total_assets = 0
        THEN [v EXCEPT !.last_fee_accrual_ts = t]
    ELSE IF AccruedFee(v, t) > 0
        THEN [v EXCEPT
                !.total_assets = TotalAssetsAfterFee(@, AccruedFee(v, t)),
                !.accrued_management_fees_usdc = AccruedAfterFee(@, AccruedFee(v, t))]
    ELSE [v EXCEPT !.last_fee_accrual_ts = t]

\* accrue_management_fees(vault) at time t: the vault it leaves.
accrue_management_fees(v, t) ==
    IF t <= v.last_fee_accrual_ts THEN v
    ELSE IF v.management_fees = 0 \/ v.total_assets = 0
        THEN [v EXCEPT !.last_fee_accrual_ts = t]
    ELSE IF AccruedFee(v, t) > 0
        THEN [v EXCEPT
                !.total_assets = TotalAssetsAfterFee(@, AccruedFee(v, t)),
                !.accrued_management_fees_usdc = AccruedAfterFee(@, AccruedFee(v, t)),
                !.last_fee_accrual_ts = t]
    ELSE [v EXCEPT !.last_fee_accrual_ts = t]

\* The clock of the ledger advances between transactions.
Tick ==
    \E d \in TickDays :
        /\ now + d <= MaxNow
        /\ now' = now + d
        /\ UNCHANGED <<vault_pdas, factory, vault, usdc, shares, asset>>

----------------------------------------------------------------------------
(* Outcome of a handler: either every effect, or none *)

\* Faulty variant of Done, told apart by C26: a successful handler clears the
\* vault's list of underlying assets.
DoneClearingAssets(v, u, s) ==
    [ok |-> TRUE, err |-> "", vault |-> [v EXCEPT !.underlying_assets = <<>>],
     usdc |-> u, shares |-> s]

Done(v, u, s) == [ok |-> TRUE, err |-> "", vault |-> v, usdc |-> u, shares |-> s]

\* Faulty variant of Fail, told apart by C11: the accrual a handler ran before
\* failing stays written.
FailKeepingAccrual(e) ==
    [ok |-> FALSE, err |-> e, vault |-> accrue_management_fees(vault, now),
     usdc |-> usdc, shares |-> shares]

\* An Err or a panic: the ledger discards every account write of the transaction.
Fail(e) == [ok |-> FALSE, err |-> e, vault |-> vault, usdc |-> usdc, shares |-> shares]

AccountsExist == factory.initialized /\ vault.initialized

----------------------------------------------------------------------------
(* deposit *)

\* Faulty variant of EntryFee, told apart by C4: the exit rate is charged.
EntryFeeAtExitRate(amount) == MulDivU64(amount, factory.exit_fee_bps, MAX_BPS)

\* entry_fee = amount * factory.entry_fee_bps / MAX_BPS, as u64
EntryFee(amount) == MulDivU64(amount, factory.entry_fee_bps, MAX_BPS)

\* deposit_amount_after_fees
NetDeposit(amount) == amount - EntryFee(amount)

\* Faulty variant of TokensForAmount, told apart by C12: one share more than
\* the quotient is minted.
TokensForAmountOneMore(net, share_price) ==
    IF share_price = 0 THEN net ELSE MulDivU64(net, SCALE, share_price) + 1

\* vault_tokens_to_mint: 1:1 when the share price is 0, else
\* (net * scale / etf_share_price) as u64
TokensForAmount(net, share_price) ==
    IF share_price = 0 THEN net ELSE MulDivU64(net, SCALE, share_price)

\* Faulty variant of DepositGateError, told apart by C2: the vault's state is
\* not looked at.
DepositGateErrorAnyState(v, amount) ==
    IF ~(amount > 0) THEN "InvalidAmount"
    ELSE IF ~(factory.state = "Active") THEN "FactoryNotActive"
    ELSE ""

\* The validations of deposit, after the accrual prologue.
DepositGateError(v, amount) ==
    IF ~(v.state = "Active") THEN "VaultNotActive"
    ELSE IF ~(amount > 0) THEN "InvalidAmount"
    ELSE IF ~(factory.state = "Active") THEN "FactoryNotActive"
    ELSE ""

\* deposit on the vault record v at time t.
deposit_at(v, t, user, amount, etf_share_price) ==
    IF ~AccountsExist THEN Fail("AccountNotInitialized")
    ELSE
    LET v1 == accrue_management_fees(v, t)
        entry_fee == EntryFee(amount)
        net == NetDeposit(amount)
        tokens == TokensForAmount(net, etf_share_price)
        u1 == IF entry_fee > 0
              THEN Transfer(usdc, user, factory.fee_recipient, entry_fee) ELSE usdc
        u2 == Transfer(u1, user, VAULT_PDA, net)
        v2 == [v1 EXCEPT !.total_assets = @ + net, !.total_supply = @ + tokens]
    IN  IF DepositGateError(v1, amount) # "" THEN Fail(DepositGateError(v1, amount))
        ELSE IF entry_fee > 0
                /\ ~TransferOk(usdc, user, factory.fee_recipient, entry_fee)
            THEN Fail("TokenInsufficientFunds")
        ELSE IF ~TransferOk(u1, user, VAULT_PDA, net) THEN Fail("TokenInsufficientFunds")
        ELSE IF ~FitsU64(v1.total_assets + net) THEN Fail("Panic")
        ELSE IF ~FitsU64(v1.total_supply + tokens) THEN Fail("Panic")
        ELSE IF ~MintToOk(shares, user, tokens) THEN Fail("TokenOverflow")
        ELSE Done(v2, u2, MintTo(shares, user, tokens))

deposit_result(user, amount, etf_share_price) ==
    deposit_at(vault, now, user, amount, etf_share_price)

deposit ==
    \E user \in Depositors, amount \in DepositAmounts, price \in SharePrices :
        LET r == deposit_result(user, amount, price)
        IN /\ (r.ok => r.vault.total_assets <= MaxTotalAssets)
           /\ vault' = r.vault
           /\ usdc' = r.usdc
           /\ shares' = r.shares
           /\ UNCHANGED <<vault_pdas, factory, asset, now>>

----------------------------------------------------------------------------
(* finalize_redeem *)

\* user_share_usdc = (vault_token_amount * etf_share_price / scale) as u64
GrossProceeds(vault_token_amount, etf_share_price) ==
    MulDivU64(vault_token_amount, etf_share_price, SCALE)

\* Faulty variant of ExitFee, told apart by C5: the entry rate is charged.
ExitFeeAtEntryRate(gross) == MulDivU64(gross, factory.entry_fee_bps, MAX_BPS)

\* exit_fee = user_share_usdc * factory.exit_fee_bps / MAX_BPS, as u64
ExitFee(gross) == MulDivU64(gross, factory.exit_fee_bps, MAX_BPS)

\* The validations of finalize_redeem, after the accrual prologue; s holds the
\* vault-token balances.
RedeemGateError(v, s, user, vault_token_amount) ==
    IF ~(vault_token_amount > 0) THEN "InvalidAmount"
    ELSE IF ~(v.state = "Active") THEN "VaultNotActive"
    ELSE IF ~(factory.state = "Active") THEN "FactoryNotActive"
    ELSE IF ~(s[user] >= vault_token_amount) THEN "InsufficientVaultTokens"
    ELSE IF ~(v.total_supply > 0) THEN "InvalidAmount"
    ELSE ""

\* Faulty variant of CustodyCovers, told apart by C19: custody is not checked.
CustodyNotChecked(u, net_to_user) == TRUE

\* The custody requirement checked after the burn; u holds the
\* settlement-token balances.
CustodyCovers(u, net_to_user) == u[VAULT_PDA] >= net_to_user

\* Faulty variant of finalize_redeem_on, told apart by C35: total_assets is
\* lowered with a wrapping subtraction.
finalize_redeem_wrapping(v, u, s, t, user, vault_token_amount, etf_share_price, fee_dest) ==
    IF ~AccountsExist THEN Fail("AccountNotInitialized")
    ELSE
    LET v1 == accrue_management_fees(v, t)
        gross == GrossProceeds(vault_token_amount, etf_share_price)
        exit_fee == ExitFee(gross)
        net_to_user == gross - exit_fee
        s1 == Burn(s, user, vault_token_amount)
        u1 == IF exit_fee > 0 THEN Transfer(u, VAULT_PDA, fee_dest, exit_fee)
              ELSE u
        u2 == IF net_to_user > 0 THEN Transfer(u1, VAULT_PDA, user, net_to_user)
              ELSE u1
        v2 == [v1 EXCEPT !.total_supply = AsU64(@ - vault_token_amount),
                         !.total_assets = AsU64(@ - gross)]
    IN  IF RedeemGateError(v1, s, user, vault_token_amount) # ""
            THEN Fail(RedeemGateError(v1, s, user, vault_token_amount))
        ELSE IF ~BurnOk(s, user, vault_token_amount)
            THEN Fail("TokenInsufficientFunds")
        ELSE IF ~CustodyCovers(u, net_to_user) THEN Fail("InsufficientFunds")
        ELSE IF exit_fee > 0 /\ ~TransferOk(u, VAULT_PDA, fee_dest, exit_fee)
            THEN Fail("TokenInsufficientFunds")
        ELSE IF net_to_user > 0 /\ ~TransferOk(u1, VAULT_PDA, user, net_to_user)
            THEN Fail("TokenInsufficientFunds")
        ELSE Done(v2, u2, s1)

\* finalize_redeem at time t on the vault record v, the settlement-token
\* balances u and the vault-token balances s.  fee_dest is the owner of the
\* account passed as fee_recipient_stablecoin_account, which FinalizeRedeem
\* does not constrain.
finalize_redeem_on(v, u, s, t, user, vault_token_amount, etf_share_price, fee_dest) ==
    IF ~AccountsExist THEN Fail("AccountNotInitialized")
    ELSE
    LET v1 == accrue_management_fees(v, t)
        gross == GrossProceeds(vault_token_amount, etf_share_price)
        exit_fee == ExitFee(gross)
        net_to_user == gross - exit_fee
        s1 == Burn(s, user, vault_token_amount)
        u1 == IF exit_fee > 0 THEN Transfer(u, VAULT_PDA, fee_dest, exit_fee)
              ELSE u
        u2 == IF net_to_user > 0 THEN Transfer(u1, VAULT_PDA, user, net_to_user)
              ELSE u1
        v2 == [v1 EXCEPT !.total_supply = @ - vault_token_amount,
                         !.total_assets = @ - gross]
    IN  IF RedeemGateError(v1, s, user, vault_token_amount) # ""
            THEN Fail(RedeemGateError(v1, s, user, vault_token_amount))
        ELSE IF ~BurnOk(s, user, vault_token_amount)
            THEN Fail("TokenInsufficientFunds")
        ELSE IF ~CustodyCovers(u, net_to_user) THEN Fail("InsufficientFunds")
        ELSE IF exit_fee > 0 /\ ~TransferOk(u, VAULT_PDA, fee_dest, exit_fee)
            THEN Fail("TokenInsufficientFunds")
        ELSE IF net_to_user > 0 /\ ~TransferOk(u1, VAULT_PDA, user, net_to_user)
            THEN Fail("TokenInsufficientFunds")
        ELSE IF ~(v1.total_supply >= vault_token_amount) THEN Fail("Panic")
        ELSE IF ~(v1.total_assets >= gross) THEN Fail("Panic")
        ELSE Done(v2, u2, s1)

\* The token-program instructions finalize_redeem has had executed, in order,
\* when it returns or fails: the burn comes after the require! chain and
\* before the custody requirement, the two transfers after it, the
\* checked_sub of total_supply and total_assets last.  A failure discards
\* their effects with the transaction.
finalize_redeem_cpis(v, u, s, t, user, vault_token_amount, etf_share_price, fee_dest) ==
    IF ~AccountsExist THEN <<>>
    ELSE
    LET v1 == accrue_management_fees(v, t)
        gross == GrossProceeds(vault_token_amount, etf_share_price)
        exit_fee == ExitFee(gross)
        net_to_user == gross - exit_fee
        u1 == IF exit_fee > 0 THEN Transfer(u, VAULT_PDA, fee_dest, exit_fee)
              ELSE u
        burn == <<"burn">>
        fee == IF exit_fee > 0 THEN <<"transfer exit_fee">> ELSE <<>>
        net == IF net_to_user > 0 THEN <<"transfer net_to_user">> ELSE <<>>
    IN  IF RedeemGateError(v1, s, user, vault_token_amount) # "" THEN <<>>
        ELSE IF ~BurnOk(s, user, vault_token_amount) THEN <<>>
        ELSE IF ~CustodyCovers(u, net_to_user) THEN burn
        ELSE IF exit_fee > 0 /\ ~TransferOk(u, VAULT_PDA, fee_dest, exit_fee)
            THEN burn
        ELSE IF net_to_user > 0 /\ ~TransferOk(u1, VAULT_PDA, user, net_to_user)
            THEN burn \o fee
        ELSE burn \o fee \o net

\* finalize_redeem on the vault record v at time t, with the balances as they are.
finalize_redeem_at(v, t, user, vault_token_amount, etf_share_price, fee_dest) ==
    finalize_redeem_on(v, usdc, shares, t, user, vault_token_amount,
                       etf_share_price, fee_dest)

finalize_redeem_result(user, vault_token_amount, etf_share_price, fee_dest) ==
    finalize_redeem_at(vault, now, user, vault_token_amount, etf_share_price, fee_dest)

\* (vault_token_amount, etf_share_price) offered to finalize_redeem: nothing,
\* a fixed lot at par, and the count that at par redeems the whole recorded
\* total_assets.
PAR == SCALE
RedeemRequests(user) ==
    { <<0, PAR>>, <<100, PAR>>,
      <<accrue_management_fees(vault, now).total_assets, PAR>> }

finalize_redeem ==
    \E user \in Depositors, fee_dest \in RedeemFeeAccounts :
      \E req \in RedeemRequests(user) :
        LET r == finalize_redeem_result(user, req[1], req[2], fee_dest)
        IN /\ vault' = r.vault
           /\ usdc' = r.usdc
           /\ shares' = r.shares
           /\ UNCHANGED <<vault_pdas, factory, asset, now>>

----------------------------------------------------------------------------
(* set_vault_paused *)

\* Faulty variant of set_vault_paused_on, told apart by C20: pausing a Paused
\* vault is an error.
set_vault_paused_rejecting_repause(v, admin, paused) ==
    IF ~AccountsExist THEN Fail("AccountNotInitialized")
    ELSE IF ~(factory.admin = admin) THEN Fail("Unauthorized")
    ELSE IF paused THEN
        IF ~(v.state = "Active") THEN Fail("VaultNotActive")
        ELSE Done([v EXCEPT !.state = "Paused"], usdc, shares)
    ELSE
        IF ~(v.state = "Paused") THEN Fail("FactoryNotActive")
        ELSE Done([v EXCEPT !.state = "Active"], usdc, shares)

\* Faulty variant of set_vault_paused_on, told apart by C21: a resume succeeds
\* from any state.
set_vault_paused_resuming_any(v, admin, paused) ==
    IF ~AccountsExist THEN Fail("AccountNotInitialized")
    ELSE IF ~(factory.admin = admin) THEN Fail("Unauthorized")
    ELSE IF paused THEN
        IF ~(v.state # "Closed") THEN Fail("VaultNotActive")
        ELSE IF v.state # "Paused"
            THEN Done([v EXCEPT !.state = "Paused"], usdc, shares)
        ELSE Done(v, usdc, shares)
    ELSE Done([v EXCEPT !.state = "Active"], usdc, shares)

\* Faulty variant of set_vault_paused_on, told apart by C38: the vault's own
\* admin may pause and resume as well.
set_vault_paused_by_vault_admin(v, admin, paused) ==
    IF ~AccountsExist THEN Fail("AccountNotInitialized")
    ELSE IF ~(factory.admin = admin \/ v.admin = admin) THEN Fail("Unauthorized")
    ELSE IF paused THEN
        IF ~(v.state # "Closed") THEN Fail("VaultNotActive")
        ELSE IF v.state # "Paused"
            THEN Done([v EXCEPT !.state = "Paused"], usdc, shares)
        ELSE Done(v, usdc, shares)
    ELSE
        IF ~(v.state = "Paused") THEN Fail("FactoryNotActive")
        ELSE Done([v EXCEPT !.state = "Active"], usdc, shares)

\* set_vault_paused on the vault record v.  SetVaultPaused requires
\* factory.admin == admin.key().
set_vault_paused_on(v, admin, paused) ==
    IF ~AccountsExist THEN Fail("AccountNotInitialized")
    ELSE IF ~(factory.admin = admin) THEN Fail("Unauthorized")
    ELSE IF paused THEN
        IF ~(v.state # "Closed") THEN Fail("VaultNotActive")
        ELSE IF v.state # "Paused"
            THEN Done([v EXCEPT !.state = "Paused"], usdc, shares)
        ELSE Done(v, usdc, shares)
    ELSE
        IF ~(v.state = "Paused") THEN Fail("FactoryNotActive")
        ELSE Done([v EXCEPT !.state = "Active"], usdc, shares)

\* The events a successful set_vault_paused on v emits.
set_vault_paused_events(v, paused) ==
    IF paused THEN (IF v.state # "Paused" THEN <<"VaultPaused">> ELSE <<>>)
    ELSE <<"VaultResumed">>

set_vault_paused_result(admin, paused) == set_vault_paused_on(vault, admin, paused)

set_vault_paused ==
    \E admin \in Identities, paused \in BOOLEAN :
        LET r == set_vault_paused_result(admin, paused)
        IN /\ vault' = r.vault
           /\ UNCHANGED <<vault_pdas, factory, usdc, shares, asset, now>>

----------------------------------------------------------------------------
(* Fee collection and distribution *)

\* vault_creator_share = (total * vault_creator_fee_ratio_bps / MAX_BPS) as u64
CreatorShareOf(total, ratio_bps) == MulDivU64(total, ratio_bps, MAX_BPS)

\* Faulty variant of PlatformShareOf, told apart by C17: the platform share is
\* computed from the platform's own ratio.
PlatformShareOwnRatio(total, ratio_bps) == MulDivU64(total, MAX_BPS - ratio_bps, MAX_BPS)

\* platform_share = total.checked_sub(vault_creator_share).unwrap(); the
\* handlers below fail where the subtraction panics.
PlatformShareOf(total, ratio_bps) == total - CreatorShareOf(total, ratio_bps)

CreatorShare(total) == CreatorShareOf(total, factory.vault_creator_fee_ratio_bps)

PlatformShare(total) == PlatformShareOf(total, factory.vault_creator_fee_ratio_bps)

\* collect_weekly_management_fees.  creator_dest and platform_dest are the
\* owners of the accounts passed as vault_admin_stablecoin_account and
\* fee_recipient_stablecoin_account; CollectWeeklyManagementFees puts no
\* constraint on either, nor on the collector.
collect_weekly_management_fees_result(creator_dest, platform_dest) ==
    IF ~AccountsExist THEN Fail("AccountNotInitialized")
    ELSE
    LET v1 == accrue_management_fees(vault, now)
        amount == v1.accrued_management_fees_usdc
        creator_share == CreatorShare(amount)
        platform_share == PlatformShare(amount)
        u1 == IF creator_share > 0
              THEN Transfer(usdc, VAULT_PDA, creator_dest, creator_share) ELSE usdc
        u2 == IF platform_share > 0
              THEN Transfer(u1, VAULT_PDA, platform_dest, platform_share) ELSE u1
    IN  IF amount = 0 THEN Done(v1, usdc, shares)
        ELSE IF ~(creator_share <= amount) THEN Fail("Panic")
        ELSE IF creator_share > 0
                /\ ~TransferOk(usdc, VAULT_PDA, creator_dest, creator_share)
            THEN Fail("TokenInsufficientFunds")
        ELSE IF platform_share > 0
                /\ ~TransferOk(u1, VAULT_PDA, platform_dest, platform_share)
            THEN Fail("TokenInsufficientFunds")
        ELSE Done([v1 EXCEPT !.accrued_management_fees_usdc = 0], u2, shares)

collect_weekly_management_fees ==
    \E collector \in Callers, dest \in Destinations :
        LET r == collect_weekly_management_fees_result(dest[1], dest[2])
        IN /\ vault' = r.vault
           /\ usdc' = r.usdc
           /\ UNCHANGED <<vault_pdas, factory, shares, asset, now>>

\* Faulty variant of NothingToPrice, told apart by C10: no early return.
NothingToPriceNever(v) == FALSE

\* The early return of distribute_accrued_fees and claim_management_fee.
NothingToPrice(v) == v.total_supply = 0 \/ v.total_assets = 0

\* Tokens minted for one fee share: 0 for a zero share, else as in deposit.
FeeShareTokens(share_usdc, share_price) ==
    IF share_usdc > 0 THEN TokensForAmount(share_usdc, share_price) ELSE 0

\* The common body of distribute_accrued_fees and claim_management_fee: the
\* split of management_fees_amount, the two mints, the reset of the accrued
\* amount and the new total_supply.
fee_shares_result(share_price, management_fees_amount, creator_dest, platform_dest) ==
    LET creator_tokens == FeeShareTokens(CreatorShare(management_fees_amount),
                                         share_price)
        platform_tokens == FeeShareTokens(PlatformShare(management_fees_amount),
                                          share_price)
        s1 == IF creator_tokens > 0 THEN MintTo(shares, creator_dest, creator_tokens)
              ELSE shares
        s2 == IF platform_tokens > 0 THEN MintTo(s1, platform_dest, platform_tokens)
              ELSE s1
    IN  IF ~(management_fees_amount > 0) THEN Fail("InvalidAmount")
        ELSE IF ~(CreatorShare(management_fees_amount) <= management_fees_amount)
            THEN Fail("Panic")
        ELSE IF NothingToPrice(vault) THEN Done(vault, usdc, shares)
        ELSE IF creator_tokens > 0 /\ ~MintToOk(shares, creator_dest, creator_tokens)
            THEN Fail("TokenOverflow")
        ELSE IF platform_tokens > 0 /\ ~MintToOk(s1, platform_dest, platform_tokens)
            THEN Fail("TokenOverflow")
        ELSE IF ~FitsU64(vault.total_supply + creator_tokens + platform_tokens)
            THEN Fail("Panic")
        ELSE Done([vault EXCEPT !.accrued_management_fees_usdc = 0,
                                !.total_supply = @ + creator_tokens + platform_tokens],
                  usdc, s2)

\* Bound of the model: fee shares are minted while the recorded supply stays
\* within MaxFeeSupply of the seed.
FeeMintAllowed(r) ==
    (r.ok /\ r.shares # shares) => r.vault.total_supply <= SEED_SUPPLY + MaxFeeSupply

\* distribute_accrued_fees.  DistributeAccruedFees constrains neither the
\* collector nor the two vault-token accounts that receive the shares.
distribute_accrued_fees_result(share_price, fees_amount, creator_dest, platform_dest) ==
    IF ~AccountsExist THEN Fail("AccountNotInitialized")
    ELSE fee_shares_result(share_price, fees_amount, creator_dest, platform_dest)

distribute_accrued_fees ==
    \E collector \in Callers, price \in SharePrices, amount \in FeeAmounts,
       dest \in Destinations :
        LET r == distribute_accrued_fees_result(price, amount, dest[1], dest[2])
        IN /\ FeeMintAllowed(r)
           /\ vault' = r.vault
           /\ shares' = r.shares
           /\ UNCHANGED <<vault_pdas, factory, usdc, asset, now>>

\* Faulty variant of ClaimAuthorized, told apart by C9: any signer may claim.
ClaimAuthorizedAnySigner(creator) == TRUE

\* The account constraints of ClaimManagementFee: the signer is the vault's
\* creator, and the shares go to the creator's and to the platform fee
\* recipient's vault-token accounts.
ClaimAuthorized(creator) == creator = vault.admin

claim_management_fee_result(creator, share_price, management_fees_amount) ==
    IF ~AccountsExist THEN Fail("AccountNotInitialized")
    ELSE IF ~ClaimAuthorized(creator) THEN Fail("Unauthorized")
    ELSE fee_shares_result(share_price, management_fees_amount,
                           creator, factory.fee_recipient)

claim_management_fee ==
    \E creator \in Callers, price \in SharePrices, amount \in FeeAmounts :
        LET r == claim_management_fee_result(creator, price, amount)
        IN /\ FeeMintAllowed(r)
           /\ vault' = r.vault
           /\ shares' = r.shares
           /\ UNCHANGED <<vault_pdas, factory, usdc, asset, now>>

----------------------------------------------------------------------------
(* Admin operations on custody *)

\* Faulty variant of AdminGateErrorIn, told apart by C39: the vault's state is
\* not looked at.
AdminGateErrorAnyVaultState(v, f, signer) ==
    IF ~(f.state = "Active") THEN "FactoryNotActive"
    ELSE IF ~(signer = v.admin \/ signer = f.admin) THEN "Unauthorized"
    ELSE ""

\* The validations shared by execute_swaps and transfer_vault_to_user, on the
\* vault record v and the factory record f.
AdminGateErrorIn(v, f, signer) ==
    IF ~(v.state = "Active") THEN "VaultNotActive"
    ELSE IF ~(f.state = "Active") THEN "FactoryNotActive"
    ELSE IF ~(signer = v.admin \/ signer = f.admin) THEN "Unauthorized"
    ELSE ""

AdminGateError(signer) == AdminGateErrorIn(vault, factory, signer)

execute_swaps_result(executor) ==
    IF ~AccountsExist THEN Fail("AccountNotInitialized")
    ELSE IF AdminGateError(executor) # "" THEN Fail(AdminGateError(executor))
    ELSE IF ~(usdc[VAULT_PDA] > 0) THEN Fail("InsufficientFunds")
    ELSE Done(vault, usdc, shares)

execute_swaps ==
    \E executor \in AdminCallers :
        LET r == execute_swaps_result(executor)
        IN /\ vault' = r.vault
           /\ usdc' = r.usdc
           /\ shares' = r.shares
           /\ UNCHANGED <<vault_pdas, factory, asset, now>>

transfer_vault_to_user_result(user, amount) ==
    IF ~AccountsExist THEN Fail("AccountNotInitialized")
    ELSE IF AdminGateError(user) # "" THEN Fail(AdminGateError(user))
    ELSE IF ~(usdc[VAULT_PDA] >= amount) THEN Fail("InsufficientFunds")
    ELSE IF ~TransferOk(usdc, VAULT_PDA, user, amount) THEN Fail("TokenInsufficientFunds")
    ELSE Done(vault, Transfer(usdc, VAULT_PDA, user, amount), shares)

transfer_vault_to_user ==
    \E user \in Callers, amount \in TransferAmounts :
        LET r == transfer_vault_to_user_result(user, amount)
        IN /\ usdc' = r.usdc
           /\ UNCHANGED <<vault_pdas, factory, vault, shares, asset, now>>

\* withdraw_underlying_to_user: a PDA-signed transfer_checked from the
\* vault's account of an underlying asset to the account the caller names.
\* The handler checks the token program id and the owners of the two token
\* accounts; it checks neither the vault's state nor the signer.
withdraw_underlying_to_user_result(user, amount) ==
    IF ~AccountsExist THEN [ok |-> FALSE, asset |-> asset]
    ELSE IF ~TransferOk(asset, VAULT_PDA, user, amount) THEN [ok |-> FALSE, asset |-> asset]
    ELSE [ok |-> TRUE, asset |-> Transfer(asset, VAULT_PDA, user, amount)]

withdraw_underlying_to_user ==
    \E user \in {USER}, amount \in {AssetFunds} :
        LET r == withdraw_underlying_to_user_result(user, amount)
        IN /\ asset' = r.asset
           /\ UNCHANGED <<vault_pdas, factory, vault, usdc, shares, now>>

----------------------------------------------------------------------------
(* get_accrued_management_fees: the accrual from live balances *)

\* value_usd of a balance at price_usd: balance * price_usd / 1_000_000 as u64
ValueUsd(balance, price_usd) == MulDivU64(balance, price_usd, USD_PRICE_SCALE)

\* gav_usd: the vault's stablecoin balance plus the value of its
\* underlying-asset accounts.  The model holds one underlying asset; the
\* vault's accounts of the other assets are empty.
GavUsd(u, a, price_usd) == u[VAULT_PDA] + ValueUsd(a[VAULT_PDA], price_usd)

\* fee_numerator / fee_denominator over the gross asset value, as u64, with
\* the elapsed time in days as in AccruedFee.
AccruedFeeOnGav(gav_usd, v, t) ==
    AsU64((gav_usd * v.management_fees * (t - v.last_fee_accrual_ts))
          \div (MAX_BPS * DAYS_PER_YEAR))

\* get_accrued_management_fees on the vault record v with the balances u, a
\* at time t.  GetAccruedManagementFees names no signer and the handler has
\* no state gate.  The outcome carries the vault the call leaves and the
\* fields of the returned AccruedManagementFees.
get_accrued_management_fees_on(v, u, a, t, price_usd) ==
    LET elapsed == IF t > v.last_fee_accrual_ts THEN t - v.last_fee_accrual_ts ELSE 0
        gav_usd == GavUsd(u, a, price_usd)
        charging == elapsed > 0 /\ v.management_fees > 0 /\ gav_usd > 0
        accrued == IF charging THEN AccruedFeeOnGav(gav_usd, v, t) ELSE 0
        v1 == IF ~charging THEN v
              ELSE [v EXCEPT !.accrued_management_fees_usdc = @ + accrued,
                             !.last_fee_accrual_ts = t]
        total_accrued_fees == v1.accrued_management_fees_usdc
        failed == [ok |-> FALSE, err |-> "Panic", vault |-> v,
                   previously_accrued_fees |-> 0, newly_accrued_fees |-> 0,
                   total_accrued_fees |-> 0, gav |-> 0, nav |-> 0]
    IN  IF ~FitsU64(gav_usd) THEN failed
        ELSE IF ~FitsU64(v.accrued_management_fees_usdc + accrued) THEN failed
        ELSE [ok |-> TRUE, err |-> "", vault |-> v1,
              previously_accrued_fees |-> v.accrued_management_fees_usdc,
              newly_accrued_fees |-> accrued,
              total_accrued_fees |-> total_accrued_fees,
              gav |-> gav_usd,
              nav |-> IF total_accrued_fees <= gav_usd
                      THEN gav_usd - total_accrued_fees ELSE 0]

get_accrued_management_fees_result(price_usd) ==
    IF ~AccountsExist
    THEN [ok |-> FALSE, err |-> "AccountNotInitialized", vault |-> vault,
          previously_accrued_fees |-> 0, newly_accrued_fees |-> 0,
          total_accrued_fees |-> 0, gav |-> 0, nav |-> 0]
    ELSE get_accrued_management_fees_on(vault, usdc, asset, now, price_usd)

get_accrued_management_fees ==
    \E caller \in Callers, price_usd \in AssetPrices :
        LET r == get_accrued_management_fees_result(price_usd)
        IN /\ vault' = r.vault
           /\ UNCHANGED <<vault_pdas, factory, usdc, shares, asset, now>>

----------------------------------------------------------------------------
(* Arithmetic at the program's width.  A natural number of any size is the  *)
(* sequence of its digits in base BigBase, lowest first and without leading *)
(* zeros (<<>> is 0), so that u64 and u128 values are computed exactly.     *)

\* The base of the digits: the product of two digits and the remainder of a
\* division by an integer below 2^31 / BigBase fit the integers of the checker.
BigBase == 1000

RECURSIVE BigNorm(_)
\* a without its leading zeros
BigNorm(a) ==
    IF a = <<>> THEN <<>>
    ELSE IF a[Len(a)] = 0 THEN BigNorm(SubSeq(a, 1, Len(a) - 1))
    ELSE a

RECURSIVE BigFromInt(_)
BigFromInt(n) ==
    IF n = 0 THEN <<>> ELSE <<n % BigBase>> \o BigFromInt(n \div BigBase)

RECURSIVE BigAddCarry(_, _, _)
BigAddCarry(a, b, carry) ==
    IF a = <<>> /\ b = <<>> THEN (IF carry = 0 THEN <<>> ELSE <<carry>>)
    ELSE LET x == IF a = <<>> THEN 0 ELSE Head(a)
             y == IF b = <<>> THEN 0 ELSE Head(b)
             ta == IF a = <<>> THEN <<>> ELSE Tail(a)
             tb == IF b = <<>> THEN <<>> ELSE Tail(b)
         IN <<(x + y + carry) % BigBase>>
                \o BigAddCarry(ta, tb, (x + y + carry) \div BigBase)

BigAdd(a, b) == BigAddCarry(a, b, 0)

RECURSIVE BigLessFrom(_, _, _)
\* a < b for two numbers of the same length, by the digits i, i - 1, ..
BigLessFrom(a, b, i) ==
    IF i = 0 THEN FALSE
    ELSE IF a[i] # b[i] THEN a[i] < b[i]
    ELSE BigLessFrom(a, b, i - 1)

BigLess(a, b) ==
    IF Len(a) # Len(b) THEN Len(a) < Len(b) ELSE BigLessFrom(a, b, Len(a))

BigLeq(a, b) == ~BigLess(b, a)

RECURSIVE BigSubBorrow(_, _, _)
BigSubBorrow(a, b, borrow) ==
    IF a = <<>> THEN <<>>
    ELSE LET y == (IF b = <<>> THEN 0 ELSE Head(b)) + borrow
             tb == IF b = <<>> THEN <<>> ELSE Tail(b)
         IN IF Head(a) >= y
            THEN <<Head(a) - y>> \o BigSubBorrow(Tail(a), tb, 0)
            ELSE <<Head(a) + BigBase - y>> \o BigSubBorrow(Tail(a), tb, 1)

\* a - b, for b <= a
BigSub(a, b) == BigNorm(BigSubBorrow(a, b, 0))

RECURSIVE BigMulDigitCarry(_, _, _)
BigMulDigitCarry(a, d, carry) ==
    IF a = <<>> THEN (IF carry = 0 THEN <<>> ELSE <<carry>>)
    ELSE <<(Head(a) * d + carry) % BigBase>>
            \o BigMulDigitCarry(Tail(a), d, (Head(a) * d + carry) \div BigBase)

\* a * d for one digit d
BigMulDigit(a, d) == BigNorm(BigMulDigitCarry(a, d, 0))

RECURSIVE BigMul(_, _)
BigMul(a, b) ==
    IF a = <<>> \/ b = <<>> THEN <<>>
    ELSE BigAdd(BigMulDigit(a, Head(b)), BigNorm(<<0>> \o BigMul(a, Tail(b))))

RECURSIVE BigDivIntFrom(_, _, _, _)
\* Short division of a by the integer d > 0, from digit i of a down, with the
\* running remainder rem: the digits of the quotient.
BigDivIntFrom(a, d, i, rem) ==
    IF i = 0 THEN <<>>
    ELSE BigDivIntFrom(a, d, i - 1, (rem * BigBase + a[i]) % d)
            \o <<(rem * BigBase + a[i]) \div d>>

\* floor(a / d) for an integer d, 0 < d < 2^31 / BigBase
BigDivInt(a, d) == BigNorm(BigDivIntFrom(a, d, Len(a), 0))

\* 2^64, as (2^16)^4
WIDE_U64_MODULUS ==
    LET w == BigFromInt(U16_MAX + 1) IN BigMul(BigMul(w, w), BigMul(w, w))

\* floor(x / 2^64), by four divisions by 2^16
BigDivU64Modulus(x) ==
    BigDivInt(BigDivInt(BigDivInt(BigDivInt(x, U16_MAX + 1), U16_MAX + 1),
                        U16_MAX + 1), U16_MAX + 1)

\* x as u64: x modulo 2^64
WideAsU64(x) ==
    IF BigLess(x, WIDE_U64_MODULUS) THEN x
    ELSE BigSub(x, BigMul(WIDE_U64_MODULUS, BigDivU64Modulus(x)))

\* ((a as u128).checked_mul(b).unwrap().checked_div(c).unwrap()) as u64, for
\* a product below 2^128 and an integer divisor c, 0 < c < 2^31 / BigBase
WideMulDivU64(a, b, c) == WideAsU64(BigDivInt(BigMul(a, b), c))

\* entry_fee of deposit
WideEntryFee(amount, entry_fee_bps) ==
    WideMulDivU64(amount, entry_fee_bps, MAX_BPS)

\* deposit_amount_after_fees
WideNetDeposit(amount, entry_fee_bps) ==
    BigSub(amount, WideEntryFee(amount, entry_fee_bps))

\* Faulty variant of WideTokensForAmount, told apart by C28: one share more
\* than the quotient is minted.
WideTokensForAmountOneMore(net, share_price) ==
    IF share_price = 0 THEN net
    ELSE BigAdd(WideMulDivU64(net, BigFromInt(SCALE), share_price), <<1>>)

\* vault_tokens_to_mint
WideTokensForAmount(net, share_price) ==
    IF share_price = 0 THEN net
    ELSE WideMulDivU64(net, BigFromInt(SCALE), share_price)

\* user_share_usdc of finalize_redeem
WideGrossProceeds(vault_token_amount, share_price) ==
    WideMulDivU64(vault_token_amount, BigFromInt(share_price), SCALE)

\* exit_fee of finalize_redeem
WideExitFee(gross, exit_fee_bps) ==
    WideMulDivU64(gross, exit_fee_bps, MAX_BPS)

\* net_to_user of finalize_redeem
WideNetToUser(gross, exit_fee_bps) == BigSub(gross, WideExitFee(gross, exit_fee_bps))

\* Faulty variant of SECONDS_PER_YEAR, told apart by C29: a leap year.
SecondsPerLeapYear == (DAYS_PER_YEAR + 1) * 24 * 60 * 60

\* const SECONDS_PER_YEAR: i64 = 365 * 24 * 60 * 60
SECONDS_PER_YEAR == DAYS_PER_YEAR * 24 * 60 * 60

\* accrued of accrue_management_fees, with the elapsed time in seconds.  The
\* quotient by MAX_BPS * SECONDS_PER_YEAR is taken as the quotient by
\* MAX_BPS, then by the seconds of a day, then by the days of
\* SECONDS_PER_YEAR, which is the same number.
WideAccruedFee(total_assets, annual_bps, elapsed) ==
    LET day == 24 * 60 * 60
        product == BigMul(BigMul(total_assets, annual_bps), elapsed)
    IN WideAsU64(BigDivInt(BigDivInt(BigDivInt(product, MAX_BPS), day),
                           SECONDS_PER_YEAR \div day))

\* accrue_management_fees after elapsed > 0 seconds on a vault with the given
\* total_assets, accrued fees and rate: the two amounts it leaves.
WideAccrue(total_assets, accrued_fees, annual_bps, elapsed) ==
    LET accrued == WideAccruedFee(total_assets, annual_bps, elapsed)
    IN IF annual_bps = <<>> \/ total_assets = <<>> \/ accrued = <<>>
       THEN [total_assets |-> total_assets, accrued_management_fees_usdc |-> accrued_fees]
       ELSE [total_assets |->
                IF BigLeq(accrued, total_assets) THEN BigSub(total_assets, accrued)
                ELSE total_assets,
             accrued_management_fees_usdc |->
                IF BigLess(BigAdd(accrued_fees, accrued), WIDE_U64_MODULUS)
                THEN BigAdd(accrued_fees, accrued)
                ELSE accrued_fees]

----------------------------------------------------------------------------
(* Specification *)

\* The program under the admin who initialized the factory; AdminSpec below
\* follows the factory through update_factory_admin.
Next ==
    \/ initialize_factory
    \/ update_factory_fees
    \/ create_vault
    \/ deposit
    \/ finalize_redeem
    \/ set_vault_paused
    \/ collect_weekly_management_fees
    \/ distribute_accrued_fees
    \/ claim_management_fee
    \/ execute_swaps
    \/ transfer_vault_to_user
    \/ withdraw_underlying_to_user
    \/ get_accrued_management_fees
    \/ Tick

Spec == Init /\ [][Next]_vars

----------------------------------------------------------------------------
(* Requests the properties quantify over.  They are wider than the requests *)
(* the transitions are taken with: a property looks, in every reachable     *)
(* state, at what each handler would do with each of these requests.        *)

AnyPrice == {0, 1, PAR, 2 * PAR}
AnyAmount == {0, 1, 100, 400}
AnyShares == {0, 1, 100, 400, accrue_management_fees(vault, now).total_assets}
AnyFeeAmount == {0, 1, 100}
AnyDestinations == {d \in Identities \X Identities : d[1] # d[2]}
AnyFeeAccount == Identities \ {USER}

\* Delays after which the properties look at an accrual.
Delays == {0, MaxDelay}

\* The outcome r leaves the vault record and every token balance as they are.
Untouched(r) == r.vault = vault /\ r.usdc = usdc /\ r.shares = shares

----------------------------------------------------------------------------
(* C1 *)

\* C1: while the vault is not Active, every value-moving instruction - deposit,
\* finalize_redeem, execute_swaps, transfer_vault_to_user,
\* withdraw_underlying_to_user, collect_weekly_management_fees,
\* distribute_accrued_fees, claim_management_fee - is rejected, whatever the
\* request, and the rejected call leaves the vault and all balances untouched.
C1_ValueOpsGatedByActive ==
    (AccountsExist /\ vault.state # "Active") =>
        /\ \A a \in AnyAmount, p \in AnyPrice :
             LET r == deposit_result(USER, a, p) IN ~r.ok /\ Untouched(r)
        /\ \A n \in AnyShares, p \in AnyPrice, f \in AnyFeeAccount :
             LET r == finalize_redeem_result(USER, n, p, f) IN ~r.ok /\ Untouched(r)
        /\ \A e \in Identities :
             LET r == execute_swaps_result(e) IN ~r.ok /\ Untouched(r)
        /\ \A u \in Identities, a \in AnyAmount :
             LET r == transfer_vault_to_user_result(u, a) IN ~r.ok /\ Untouched(r)
        /\ \A u \in Identities, a \in 1..AssetFunds :
             LET r == withdraw_underlying_to_user_result(u, a)
             IN ~r.ok /\ r.asset = asset
        /\ \A d \in AnyDestinations :
             LET r == collect_weekly_management_fees_result(d[1], d[2])
             IN ~r.ok /\ Untouched(r)
        /\ \A d \in AnyDestinations, p \in AnyPrice, a \in AnyFeeAmount :
             LET r == distribute_accrued_fees_result(p, a, d[1], d[2])
             IN ~r.ok /\ Untouched(r)
        /\ \A c \in Identities, p \in AnyPrice, a \in AnyFeeAmount :
             LET r == claim_management_fee_result(c, p, a) IN ~r.ok /\ Untouched(r)

\* A paused vault whose accrued fees collect_weekly_management_fees pays out.
C1_PausedVaultPaysFees ==
    /\ AccountsExist
    /\ vault.state = "Paused"
    /\ \E d \in Destinations :
         LET r == collect_weekly_management_fees_result(d[1], d[2])
         IN r.ok /\ r.usdc[VAULT_PDA] < usdc[VAULT_PDA]

----------------------------------------------------------------------------
(* C2 *)

\* The vault record a successful set_vault_paused(paused = false) leaves.
Resumed == set_vault_paused_result(factory.admin, FALSE).vault

\* While the vault is Paused every deposit and every finalize_redeem is
\* rejected, now and after any further time.
PausedRejectsAll ==
    \A d \in Delays :
        /\ \A a \in AnyAmount, p \in AnyPrice :
             ~deposit_at(vault, now + d, USER, a, p).ok
        /\ \A n \in AnyShares, p \in AnyPrice, f \in AnyFeeAccount :
             ~finalize_redeem_at(vault, now + d, USER, n, p, f).ok

\* A deposit that only the pause keeps from succeeding succeeds once the vault
\* is resumed, after any time d spent paused.
ResumedDepositSucceeds ==
    \A d \in Delays, a \in AnyAmount, p \in AnyPrice :
        deposit_at(Resumed, now, USER, a, p).ok
            => deposit_at(Resumed, now + d, USER, a, p).ok

\* C2 (as amended): while the vault is Paused every deposit and every
\* finalize_redeem is rejected; once resumed, after any time d spent paused, a
\* deposit that only the pause held back succeeds, and so does a redeem that
\* only the pause held back provided its gross proceeds do not exceed the
\* total_assets left by the fee accrual over the time paused.
C2_PauseGate ==
    (AccountsExist /\ vault.state = "Paused") =>
        /\ PausedRejectsAll
        /\ ResumedDepositSucceeds
        /\ \A d \in Delays, n \in AnyShares, p \in AnyPrice, f \in AnyFeeAccount :
             ( /\ finalize_redeem_at(Resumed, now, USER, n, p, f).ok
               /\ (n * p) \div SCALE
                    <= accrue_management_fees(Resumed, now + d).total_assets )
                 => finalize_redeem_at(Resumed, now + d, USER, n, p, f).ok

\* C2 (as claimed): ... once resumed, the identical deposit or redeem request
\* (balances and custody as they were) succeeds for any time spent paused.
C2_PauseGateAnyTime ==
    (AccountsExist /\ vault.state = "Paused") =>
        /\ PausedRejectsAll
        /\ ResumedDepositSucceeds
        /\ \A d \in Delays, n \in AnyShares, p \in AnyPrice, f \in AnyFeeAccount :
             finalize_redeem_at(Resumed, now, USER, n, p, f).ok
                 => finalize_redeem_at(Resumed, now + d, USER, n, p, f).ok

\* A Paused vault holding a deposit, with a redeem request that only the pause
\* holds back and that still succeeds after a pause long enough to accrue fees.
C2_RedeemAfterLongPause ==
    /\ AccountsExist
    /\ vault.state = "Paused"
    /\ shares[USER] > 0
    /\ \E d \in Delays, n \in AnyShares :
         /\ d > 0
         /\ ~finalize_redeem_at(vault, now + d, USER, n, PAR, PLATFORM).ok
         /\ finalize_redeem_at(Resumed, now, USER, n, PAR, PLATFORM).ok
         /\ accrue_management_fees(Resumed, now + d).total_assets < vault.total_assets
         /\ finalize_redeem_at(Resumed, now + d, USER, n, PAR, PLATFORM).ok

----------------------------------------------------------------------------
(* C3 *)

----------------------------------------------------------------------------
(* C4 *)

\* C4: every successful deposit has amount > 0 and, with
\* entry_fee = floor(amount * entry_fee_bps / 10000) and net = amount - entry_fee,
\* takes exactly amount from the depositor, gives exactly entry_fee to the
\* factory fee recipient and exactly net to custody, adds exactly net to the
\* total_assets left by the accrual prologue, and adds the number of shares
\* minted both to total_supply and to the depositor's share balance.
C4_DepositDeltas ==
    AccountsExist =>
        \A a \in AnyAmount, p \in AnyPrice :
            LET r == deposit_result(USER, a, p)
                entry_fee == (a * factory.entry_fee_bps) \div 10000
                net == a - entry_fee
                minted == MintSupply(r.shares) - MintSupply(shares)
            IN r.ok =>
                /\ a > 0
                /\ r.usdc[USER] = usdc[USER] - a
                /\ r.usdc[factory.fee_recipient] = usdc[factory.fee_recipient] + entry_fee
                /\ r.usdc[VAULT_PDA] = usdc[VAULT_PDA] + net
                /\ r.vault.total_assets
                     = accrue_management_fees(vault, now).total_assets + net
                /\ r.vault.total_supply = vault.total_supply + minted
                /\ r.shares[USER] = shares[USER] + minted

\* A deposit that succeeds, pays a non-zero entry fee and mints shares.
C4_DepositWithEntryFee ==
    /\ AccountsExist
    /\ \E a \in DepositAmounts, p \in SharePrices :
         LET r == deposit_result(USER, a, p)
         IN /\ r.ok
            /\ r.usdc[factory.fee_recipient] > usdc[factory.fee_recipient]
            /\ r.shares[USER] > shares[USER]

----------------------------------------------------------------------------
(* C5 *)

\* The deltas of a successful finalize_redeem of n shares at price p, against
\* the total_assets value `before`.
RedeemDeltas(r, n, p, f, before) ==
    LET gross == (n * p) \div (10 ^ 6)
        exit_fee == (gross * factory.exit_fee_bps) \div 10000
        net_to_user == gross - exit_fee
    IN /\ n > 0
       /\ r.shares[USER] = shares[USER] - n
       /\ r.vault.total_supply = vault.total_supply - n
       /\ r.vault.total_assets = before - gross
       /\ r.usdc[VAULT_PDA] = usdc[VAULT_PDA] - gross
       /\ r.usdc[f] = usdc[f] + exit_fee
       /\ r.usdc[USER] = usdc[USER] + net_to_user

----------------------------------------------------------------------------
(* C6 *)

\* C6: when accrual runs at a time t with elapsed = t - last_fee_accrual_ts > 0
\* and accrued = floor(total_assets * management_fees * elapsed
\* / (10000 * seconds per year)) > 0, total_assets decreases by accrued,
\* becoming 0 when accrued exceeds it, and accrued_management_fees_usdc
\* increases by accrued.
C6_AccrualSaturatesAtZero ==
    vault.initialized =>
        \A d \in Delays :
            LET elapsed == (now + d) - vault.last_fee_accrual_ts
                accrued == (vault.total_assets * vault.management_fees * elapsed)
                               \div (10000 * DAYS_PER_YEAR)
                v1 == accrue_management_fees(vault, now + d)
            IN (elapsed > 0 /\ accrued > 0) =>
                /\ v1.total_assets = IF accrued > vault.total_assets THEN 0
                                     ELSE vault.total_assets - accrued
                /\ v1.accrued_management_fees_usdc
                     = vault.accrued_management_fees_usdc + accrued

\* An accrual has charged more than the vault's total_assets and left
\* total_assets as it was: the fees accrued exceed what custody holds.
C6_FeeLargerThanAssetsCharged ==
    /\ vault.initialized
    /\ vault.total_assets > 0
    /\ vault.last_fee_accrual_ts = now
    /\ vault.accrued_management_fees_usdc > usdc[VAULT_PDA]
    /\ vault.total_assets = usdc[VAULT_PDA]

----------------------------------------------------------------------------
(* C7 *)

\* C7: no instruction commits a wrapped or truncated value: a deposit or a
\* fee-share mint succeeds only if the quotient net * 10^6 / share_price fits
\* 64 bits, and an accrual changes the vault only by the exact accrued fee.
C7_NoTruncatedValueCommitted ==
    AccountsExist =>
        /\ \A a \in AnyAmount, p \in AnyPrice \ {0} :
             LET r == deposit_result(USER, a, p)
                 net == a - (a * factory.entry_fee_bps) \div 10000
             IN r.ok => /\ FitsU64((net * (10 ^ 6)) \div p)
                        /\ r.shares[USER] = shares[USER] + (net * (10 ^ 6)) \div p
        /\ \A d \in AnyDestinations, p \in AnyPrice \ {0}, a \in AnyFeeAmount :
             LET r == distribute_accrued_fees_result(p, a, d[1], d[2])
                 creator_share == (a * factory.vault_creator_fee_ratio_bps) \div 10000
             IN (r.ok /\ r.shares # shares) =>
                    /\ FitsU64((creator_share * (10 ^ 6)) \div p)
                    /\ FitsU64(((a - creator_share) * (10 ^ 6)) \div p)
        /\ \A d \in Delays :
             LET elapsed == (now + d) - vault.last_fee_accrual_ts
                 accrued == (vault.total_assets * vault.management_fees * elapsed)
                                \div (10000 * DAYS_PER_YEAR)
                 v1 == accrue_management_fees(vault, now + d)
             IN v1.accrued_management_fees_usdc # vault.accrued_management_fees_usdc
                    => /\ FitsU64(accrued)
                       /\ v1.accrued_management_fees_usdc
                            = vault.accrued_management_fees_usdc + accrued

\* A deposit that succeeds and mints fewer shares than net * 10^6 / share_price.
C7_DepositMintsTruncatedShares ==
    /\ AccountsExist
    /\ \E a \in DepositAmounts, p \in SharePrices :
         LET r == deposit_result(USER, a, p)
         IN /\ p > 0
            /\ r.ok
            /\ r.shares[USER] - shares[USER] < (NetDeposit(a) * SCALE) \div p

----------------------------------------------------------------------------
(* C8 *)

\* The accounts fees are meant for: the vault admin's and the factory fee
\* recipient's.
ConfiguredRecipients == <<vault.admin, factory.fee_recipient>>

\* C8: whoever calls collect_weekly_management_fees or distribute_accrued_fees,
\* a call that names any destination pair other than (the vault admin's
\* account, the factory fee recipient's account) is rejected, so the creator
\* share and the platform share are credited to those two accounts only.
C8_FeesOnlyToConfiguredRecipients ==
    AccountsExist =>
        \A d \in AnyDestinations \ {ConfiguredRecipients} :
            /\ LET r == collect_weekly_management_fees_result(d[1], d[2])
               IN ~r.ok /\ r.usdc = usdc
            /\ \A p \in AnyPrice, a \in AnyFeeAmount :
                 LET r == distribute_accrued_fees_result(p, a, d[1], d[2])
                 IN ~r.ok /\ r.shares = shares

\* Accrued fees are waiting, and a collection that names the depositor's
\* account as the creator's pays the creator share to the depositor.
C8_CreatorShareRedirected ==
    /\ AccountsExist
    /\ vault.admin # USER
    /\ LET r == collect_weekly_management_fees_result(USER, PLATFORM)
       IN r.ok /\ r.usdc[USER] > usdc[USER] /\ r.usdc[CREATOR] = usdc[CREATOR]

----------------------------------------------------------------------------
(* C9 *)

\* C9: claim_management_fee succeeds only when signed by vault.admin; signed
\* by anyone else it is rejected with no share minted and the vault record,
\* accrued_management_fees_usdc and total_supply included, as it was.
C9_ClaimOnlyByCreator ==
    AccountsExist =>
        \A c \in Identities, p \in AnyPrice, a \in AnyFeeAmount :
            LET r == claim_management_fee_result(c, p, a)
            IN /\ r.ok => c = vault.admin
               /\ c # vault.admin => (~r.ok /\ Untouched(r))

\* The same claim succeeds and mints shares when the creator signs it and is
\* rejected when the depositor signs it.
C9_CreatorClaimsOthersRejected ==
    /\ AccountsExist
    /\ \E p \in SharePrices, a \in FeeAmounts :
         /\ claim_management_fee_result(vault.admin, p, a).ok
         /\ claim_management_fee_result(vault.admin, p, a).shares # shares
         /\ ~claim_management_fee_result(USER, p, a).ok

----------------------------------------------------------------------------
(* C10 *)

\* The accrued amount a successful fee-share call must leave: untouched when
\* the call returns early because total_supply or total_assets is 0, else 0.
AccruedAfterFeeShares ==
    IF vault.total_supply = 0 \/ vault.total_assets = 0
    THEN vault.accrued_management_fees_usdc ELSE 0

\* C10 (as amended): a successful collect_weekly_management_fees leaves
\* accrued_management_fees_usdc = 0; a successful distribute_accrued_fees or
\* claim_management_fee leaves it 0 unless the call returned early because
\* total_supply or total_assets is 0, and then leaves it as it was.
C10_AccruedResetOnPayout ==
    AccountsExist =>
        /\ \A d \in AnyDestinations :
             LET r == collect_weekly_management_fees_result(d[1], d[2])
             IN r.ok => r.vault.accrued_management_fees_usdc = 0
        /\ \A d \in AnyDestinations, p \in AnyPrice, a \in AnyFeeAmount :
             LET r == distribute_accrued_fees_result(p, a, d[1], d[2])
             IN r.ok => r.vault.accrued_management_fees_usdc = AccruedAfterFeeShares
        /\ \A c \in Identities, p \in AnyPrice, a \in AnyFeeAmount :
             LET r == claim_management_fee_result(c, p, a)
             IN r.ok => r.vault.accrued_management_fees_usdc = AccruedAfterFeeShares

\* C10 (as claimed): after any successful collect_weekly_management_fees,
\* distribute_accrued_fees or claim_management_fee, early exits included,
\* accrued_management_fees_usdc = 0.
C10_AccruedZeroAfterAnySuccess ==
    AccountsExist =>
        /\ \A d \in AnyDestinations :
             LET r == collect_weekly_management_fees_result(d[1], d[2])
             IN r.ok => r.vault.accrued_management_fees_usdc = 0
        /\ \A d \in AnyDestinations, p \in AnyPrice, a \in AnyFeeAmount :
             LET r == distribute_accrued_fees_result(p, a, d[1], d[2])
             IN r.ok => r.vault.accrued_management_fees_usdc = 0
        /\ \A c \in Identities, p \in AnyPrice, a \in AnyFeeAmount :
             LET r == claim_management_fee_result(c, p, a)
             IN r.ok => r.vault.accrued_management_fees_usdc = 0

\* Fees are accrued and total_assets is 0: distributing the fees returns
\* success through the early exit.
C10_EarlyExitWithFeesAccrued ==
    /\ AccountsExist
    /\ vault.total_assets = 0
    /\ vault.accrued_management_fees_usdc > 0
    /\ \E p \in SharePrices, a \in FeeAmounts, d \in Destinations :
         LET r == distribute_accrued_fees_result(p, a, d[1], d[2])
         IN r.ok /\ r.vault.accrued_management_fees_usdc > 0

----------------------------------------------------------------------------
(* C11 *)

----------------------------------------------------------------------------
(* C12 *)

\* The finalize_redeem sent right after the successful deposit d (no time
\* elapsed), for exactly the shares d minted, at the same share price.
RedeemOfDeposit(d, p, f) ==
    finalize_redeem_on(d.vault, d.usdc, d.shares, now, USER,
                       d.shares[USER] - shares[USER], p, f)

\* C12: for every deposit that succeeds, the finalize_redeem of exactly the
\* shares it minted, sent at once at the same share price, pays the user
\* net_to_user <= amount - entry_fee - exit_fee when it succeeds, so the user
\* never ends the round trip with more than before it.
C12_RoundTripNeverGains ==
    AccountsExist =>
        \A a \in AnyAmount, p \in AnyPrice, f \in AnyFeeAccount :
            LET d == deposit_result(USER, a, p)
                r == RedeemOfDeposit(d, p, f)
                entry_fee == (a * factory.entry_fee_bps) \div 10000
                exit_fee == r.usdc[f] - d.usdc[f]
                net_to_user == r.usdc[USER] - d.usdc[USER]
            IN (d.ok /\ r.ok) =>
                /\ net_to_user <= a - entry_fee - exit_fee
                /\ r.usdc[USER] <= usdc[USER]

\* A deposit that pays an entry fee, followed at once by the redeem of the
\* shares it minted, which pays an exit fee and returns funds to the user.
C12_RoundTripPaysBothFees ==
    /\ AccountsExist
    /\ \E a \in AnyAmount, p \in AnyPrice :
         LET d == deposit_result(USER, a, p)
             r == RedeemOfDeposit(d, p, PLATFORM)
         IN /\ d.ok /\ r.ok
            /\ d.usdc[PLATFORM] > usdc[PLATFORM]
            /\ r.usdc[PLATFORM] > d.usdc[PLATFORM]
            /\ r.usdc[USER] > d.usdc[USER]

----------------------------------------------------------------------------
(* C13 *)

\* (vault_creator_fee_ratio_bps, platform_fee_ratio_bps) pairs of u16 values:
\* valid pairs, pairs off the sum, pairs with a zero, and pairs whose sum is
\* 10000 + 2^16.
AnyRatioPairs ==
    { <<7000, 3000>>, <<1, 9999>>, <<9999, 1>>, <<10000, 0>>, <<0, 10000>>,
      <<7000, 2000>>, <<7000, 3001>>, <<40000, 35536>>, <<65535, 10001>> }

\* Fee parameters that pass every check but, possibly, those on the ratios.
WithRatios(pair) == FeeParams(25, 100, 5, 50, 2000, pair[1], pair[2])

\* Both ratios are positive and their sum, as integers, is 10000.
ValidRatios(pair) == pair[1] > 0 /\ pair[2] > 0 /\ pair[1] + pair[2] = 10000

\* C13: in either build, initialize_factory and update_factory_fees accept a
\* ratio pair exactly when both ratios are > 0 and their integer sum is 10000,
\* a rejected call leaves the factory as it was, and the ratios of an
\* initialised factory sum to 10000 with each in 1..9999.
C13_RatiosSumToMaxBps ==
    /\ \A pair \in AnyRatioPairs, overflow_checks \in BOOLEAN :
         LET i == initialize_factory_result(WithRatios(pair), overflow_checks)
             u == update_factory_fees_result(factory.admin, WithRatios(pair),
                                             overflow_checks)
         IN /\ ~factory.initialized => (i.ok <=> ValidRatios(pair))
            /\ factory.initialized => (u.ok <=> ValidRatios(pair))
            /\ ~i.ok => i.factory = factory
            /\ ~u.ok => u.factory = factory
    /\ factory.initialized =>
         /\ factory.vault_creator_fee_ratio_bps + factory.platform_fee_ratio_bps = 10000
         /\ factory.vault_creator_fee_ratio_bps \in 1..9999
         /\ factory.platform_fee_ratio_bps \in 1..9999

\* In a build without overflow checks the factory admin's update with the
\* pair (40000, 35536), whose 16-bit sum wraps to 10000, is accepted.
C13_WrappingPairAccepted ==
    /\ factory.initialized
    /\ ValidRatios(<<factory.vault_creator_fee_ratio_bps,
                     factory.platform_fee_ratio_bps>>)
    /\ LET u == update_factory_fees_result(factory.admin,
                                           WithRatios(<<40000, 35536>>), FALSE)
       IN u.ok /\ u.factory.vault_creator_fee_ratio_bps = 40000

----------------------------------------------------------------------------
(* C14 *)

\* Fee parameters at and beyond each limit.
AnyFeeParams ==
    { FeeParams(e, x, 5, mn, mx, pair[1], pair[2]) :
        e \in {0, 1000, 1001}, x \in {0, 1000, 1001},
        mn \in {0, 2000, 2001}, mx \in {0, 2000, 2001},
        pair \in {<<7000, 3000>>, <<40000, 35536>>} }

\* The limits C14 names, on a record of fee parameters.
WithinLimits(p) ==
    /\ p.entry_fee_bps <= 1000
    /\ p.exit_fee_bps <= 1000
    /\ p.min_management_fee_bps <= p.max_management_fee_bps
    /\ p.max_management_fee_bps <= 2000
    /\ \A b \in {p.entry_fee_bps, p.exit_fee_bps, p.min_management_fee_bps,
                  p.max_management_fee_bps, p.vault_creator_fee_ratio_bps,
                  p.platform_fee_ratio_bps} : b \in 0..10000

\* C14: an initialised factory has entry_fee_bps <= 1000, exit_fee_bps <= 1000,
\* min_management_fee_bps <= max_management_fee_bps <= 2000 and every *_bps
\* field in 0..10000; in either build, an initialize_factory or
\* update_factory_fees call whose parameters break a limit is rejected and
\* leaves the factory as it was.
C14_FactoryFeesWithinLimits ==
    /\ factory.initialized => WithinLimits(factory)
    /\ \A p \in AnyFeeParams, overflow_checks \in BOOLEAN :
         LET i == initialize_factory_result(p, overflow_checks)
             u == update_factory_fees_result(factory.admin, p, overflow_checks)
         IN /\ (~factory.initialized /\ ~WithinLimits(p))
                  => (~i.ok /\ i.factory = factory)
            /\ (factory.initialized /\ ~WithinLimits(p))
                  => (~u.ok /\ u.factory = factory)

\* An initialised factory whose stored creator ratio is beyond 10000 bps while
\* its entry, exit and management limits hold.
C14_RatioFieldBeyondMaxBps ==
    /\ factory.initialized
    /\ factory.vault_creator_fee_ratio_bps > MAX_BPS
    /\ factory.entry_fee_bps <= MAX_ENTRY_EXIT_BPS_LIMIT
    /\ factory.max_management_fee_bps <= MAX_MANAGEMENT_BPS_LIMIT

----------------------------------------------------------------------------
(* C15 *)

\* Times to run the accrual at: now, one day on (a fee that floors to 0 at the
\* model's amounts) and the times the clock can reach.
AccrualTimes == {now, vault.last_fee_accrual_ts + 1} \cup {now + d : d \in Delays}

\* C15: an accrual run at a time t > last_fee_accrual_ts leaves
\* last_fee_accrual_ts = t, whether or not it charges a fee, and so does every
\* successful deposit, finalize_redeem and collect_weekly_management_fees
\* through its accrual prologue; the next accrual at t then charges nothing.
C15_AccrualStampsTime ==
    AccountsExist =>
        /\ \A t \in AccrualTimes :
             t > vault.last_fee_accrual_ts =>
                 LET v1 == accrue_management_fees(vault, t)
                 IN /\ v1.last_fee_accrual_ts = t
                    /\ accrue_management_fees(v1, t).total_assets = v1.total_assets
                    /\ \A a \in AnyAmount, p \in AnyPrice :
                         LET r == deposit_at(vault, t, USER, a, p)
                         IN r.ok => r.vault.last_fee_accrual_ts = t
                    /\ \A n \in AnyShares, p \in AnyPrice, f \in AnyFeeAccount :
                         LET r == finalize_redeem_at(vault, t, USER, n, p, f)
                         IN r.ok => r.vault.last_fee_accrual_ts = t
        /\ now > vault.last_fee_accrual_ts =>
             \A d \in AnyDestinations :
                 LET r == collect_weekly_management_fees_result(d[1], d[2])
                 IN r.ok => r.vault.last_fee_accrual_ts = now

\* Time has passed since the last accrual of a vault holding assets at a
\* non-zero rate; an accrual one day after the last one computes a fee of 0
\* and still advances the timestamp, and so does the one due now.
C15_ZeroFeeStillStamps ==
    /\ AccountsExist
    /\ vault.total_assets > 0
    /\ vault.management_fees > 0
    /\ now > vault.last_fee_accrual_ts
    /\ AccruedFee(vault, vault.last_fee_accrual_ts + 1) = 0
    /\ accrue_management_fees(vault, vault.last_fee_accrual_ts + 1).last_fee_accrual_ts
         = vault.last_fee_accrual_ts + 1
    /\ accrue_management_fees(vault, now).last_fee_accrual_ts = now

----------------------------------------------------------------------------
(* C16 *)

\* C16: at any time t, a second accrual run at t right after a first one
\* leaves total_assets, accrued_management_fees_usdc and last_fee_accrual_ts,
\* and with them the whole vault record, as the first run left them.
C16_AccrualIdempotent ==
    vault.initialized =>
        \A t \in AccrualTimes :
            LET v1 == accrue_management_fees(vault, t)
                v2 == accrue_management_fees(v1, t)
            IN /\ v2.total_assets = v1.total_assets
               /\ v2.accrued_management_fees_usdc = v1.accrued_management_fees_usdc
               /\ v2.last_fee_accrual_ts = v1.last_fee_accrual_ts
               /\ v2 = v1

\* An accrual is due that charges a fee; run twice at the same time it
\* charges once.
C16_SecondRunChargesNothing ==
    /\ vault.initialized
    /\ LET v1 == accrue_management_fees(vault, now)
       IN /\ v1.total_assets < vault.total_assets
          /\ v1.accrued_management_fees_usdc > vault.accrued_management_fees_usdc
          /\ accrue_management_fees(v1, now) = v1

----------------------------------------------------------------------------
(* C17 *)

\* Totals to split and valid creator ratios to split them by.
AnyTotals == {0, 1, 3, 100, 399, 9999, 10001}
AnyValidRatios == {1, 3000, 7000, 9999}

\* The factory's ratios are a valid pair.
FactoryRatiosValid ==
    ValidRatios(<<factory.vault_creator_fee_ratio_bps, factory.platform_fee_ratio_bps>>)

----------------------------------------------------------------------------
(* C18 *)

\* C18: a finalize_redeem with exit_fee > 0 succeeds only when the account it
\* names for the fee is the factory fee recipient's, and then credits that
\* account with the exit fee; naming any other account, it is rejected.
C18_ExitFeeOnlyToFeeRecipient ==
    AccountsExist =>
        \A n \in AnyShares, p \in AnyPrice, f \in AnyFeeAccount :
            LET r == finalize_redeem_result(USER, n, p, f)
                exit_fee == ExitFee(GrossProceeds(n, p))
            IN (r.ok /\ exit_fee > 0) =>
                /\ f = factory.fee_recipient
                /\ r.usdc[factory.fee_recipient]
                     = usdc[factory.fee_recipient] + exit_fee

\* A redeem that names the vault creator's account for the fee succeeds and
\* pays the exit fee to the creator, nothing to the factory fee recipient.
C18_ExitFeeRedirected ==
    /\ AccountsExist
    /\ CREATOR # factory.fee_recipient
    /\ \E n \in AnyShares :
         LET r == finalize_redeem_result(USER, n, PAR, CREATOR)
         IN /\ r.ok
            /\ r.usdc[CREATOR] > usdc[CREATOR]
            /\ r.usdc[factory.fee_recipient] = usdc[factory.fee_recipient]

----------------------------------------------------------------------------
(* C19 *)

\* Every precondition of the redeem of n shares at price p but those on
\* custody: the validations, the burn, and the recorded supply and assets
\* covering what is taken from them.
RedeemOtherwiseValid(n, p) ==
    LET v1 == accrue_management_fees(vault, now)
    IN /\ AccountsExist
       /\ RedeemGateError(v1, shares, USER, n) = ""
       /\ BurnOk(shares, USER, n)
       /\ v1.total_supply >= n
       /\ v1.total_assets >= GrossProceeds(n, p)

\* net_to_user of the redeem of n shares at price p.
NetToUser(n, p) == GrossProceeds(n, p) - ExitFee(GrossProceeds(n, p))

----------------------------------------------------------------------------
(* C20 *)

\* The vault record with its state set to st.
InState(st) == [vault EXCEPT !.state = st]

\* C20: signed by the factory admin, set_vault_paused(paused = true) moves an
\* Active vault to Paused and emits VaultPaused; on a Paused vault it returns
\* success, leaves the vault record as it is and emits no event; it is
\* rejected from Closed, and from no other state.
C20_PauseIdempotent ==
    AccountsExist =>
        LET active == set_vault_paused_on(InState("Active"), factory.admin, TRUE)
            paused == set_vault_paused_on(InState("Paused"), factory.admin, TRUE)
            closed == set_vault_paused_on(InState("Closed"), factory.admin, TRUE)
        IN /\ active.ok /\ active.vault = InState("Paused")
           /\ set_vault_paused_events(InState("Active"), TRUE) = <<"VaultPaused">>
           /\ paused.ok /\ paused.vault = InState("Paused")
           /\ set_vault_paused_events(InState("Paused"), TRUE) = <<>>
           /\ set_vault_paused_on(active.vault, factory.admin, TRUE).vault = active.vault
           /\ ~closed.ok
           /\ \A st \in {"Active", "Paused", "Closed"} :
                ~set_vault_paused_on(InState(st), factory.admin, TRUE).ok
                    => st = "Closed"

\* The vault is Paused and the factory admin pauses it again: the call
\* succeeds and changes nothing.
C20_PausedVaultPausedAgain ==
    /\ AccountsExist
    /\ vault.state = "Paused"
    /\ set_vault_paused_result(factory.admin, TRUE).ok
    /\ Untouched(set_vault_paused_result(factory.admin, TRUE))
    /\ set_vault_paused_events(vault, TRUE) = <<>>

----------------------------------------------------------------------------
(* C21 *)

\* C21: signed by the factory admin, set_vault_paused(paused = false) succeeds
\* only on a Paused vault, which it moves to Active with a VaultResumed event;
\* on an Active or a Closed vault it is rejected and leaves the vault record
\* and every balance as they are, so that a second resume of a vault just
\* resumed is rejected.
C21_ResumeOnlyFromPaused ==
    AccountsExist =>
        LET active == set_vault_paused_on(InState("Active"), factory.admin, FALSE)
            paused == set_vault_paused_on(InState("Paused"), factory.admin, FALSE)
            closed == set_vault_paused_on(InState("Closed"), factory.admin, FALSE)
        IN /\ paused.ok /\ paused.vault = InState("Active")
           /\ set_vault_paused_events(InState("Paused"), FALSE) = <<"VaultResumed">>
           /\ ~active.ok /\ active.vault = vault
           /\ active.usdc = usdc /\ active.shares = shares
           /\ ~closed.ok /\ closed.vault = vault
           /\ closed.usdc = usdc /\ closed.shares = shares
           /\ ~set_vault_paused_on(paused.vault, factory.admin, FALSE).ok
           /\ \A st \in {"Active", "Paused", "Closed"} :
                set_vault_paused_on(InState(st), factory.admin, FALSE).ok
                    => st = "Paused"
           /\ ~set_vault_paused_result(factory.admin, FALSE).ok
                => Untouched(set_vault_paused_result(factory.admin, FALSE))

\* The vault holds a deposit and is Active: the factory admin's resume is
\* rejected with FactoryNotActive and changes nothing, while the same call on
\* the vault when Paused would succeed.
C21_ResumeOfActiveVaultRejected ==
    /\ AccountsExist
    /\ vault.state = "Active"
    /\ vault.total_assets > 0
    /\ set_vault_paused_result(factory.admin, FALSE).err = "FactoryNotActive"
    /\ Untouched(set_vault_paused_result(factory.admin, FALSE))
    /\ set_vault_paused_on(InState("Paused"), factory.admin, FALSE).ok

----------------------------------------------------------------------------
(* C22 *)

\* C22: create_vault leaves the new vault Active; every vault of a reachable
\* state is Active or Paused, never Closed; and from every reachable state the
\* factory admin brings the vault back to Active: it is Active, or Paused and
\* one resume away from Active.
C22_ClosedUnreachable ==
    /\ \A p \in CreateVaultInputs, overflow_checks \in BOOLEAN :
          LET r == create_vault_result(CREATOR, p, overflow_checks)
          IN r.ok => r.vault.state = "Active"
    /\ vault.initialized =>
          /\ vault.state \in {"Active", "Paused"}
          /\ vault.state # "Closed"
          /\ vault.state = "Paused" =>
                /\ set_vault_paused_result(factory.admin, FALSE).ok
                /\ set_vault_paused_result(factory.admin, FALSE).vault.state = "Active"

\* A vault that has been paused after a deposit: it is Paused, not Closed, and
\* the factory admin's resume makes it Active.
C22_PausedVaultCanResume ==
    /\ AccountsExist
    /\ vault.state = "Paused"
    /\ vault.total_assets > 0
    /\ set_vault_paused_result(factory.admin, FALSE).ok
    /\ set_vault_paused_result(factory.admin, FALSE).vault.state = "Active"

----------------------------------------------------------------------------
(* C23 *)

\* create_vault requests of the properties: the requests of the transitions,
\* a single asset, lists whose sum is not MAX_BPS, lists whose 16-bit sum
\* passes U16_MAX, and a management fee below the factory's minimum.
AnyVaultParams ==
    CreateVaultInputs \cup
    { VaultParams(4, 3, <<10000>>, 100),
      VaultParams(4, 3, <<10000, 1>>, 100),
      VaultParams(4, 3, <<40000, 35536>>, 100),
      VaultParams(4, 3, <<30000, 30000, 15536>>, 100),
      VaultParams(4, 3, <<65535, 10001>>, 100),
      VaultParams(4, 3, <<65535, 1>>, 100),
      VaultParams(4, 3, <<6000, 4000>>, 49) }

\* The state part of C23.
VaultCountMatchesVaults ==
    /\ vault_pdas = 0..(factory.vault_count - 1)
    /\ Cardinality(vault_pdas) = factory.vault_count
    /\ vault.initialized => vault.vault_index \in vault_pdas
    /\ \A p \in AnyVaultParams, overflow_checks \in BOOLEAN :
          LET r == create_vault_result(CREATOR, p, overflow_checks)
          IN /\ r.ok =>
                  /\ r.factory.vault_count = factory.vault_count + 1
                  /\ r.vault_index = factory.vault_count
                  /\ r.vault.vault_index = factory.vault_count
                  /\ r.vault_index \notin vault_pdas
             /\ ~r.ok => r.factory.vault_count = factory.vault_count

\* C23: factory.vault_count never decreases; a successful create_vault raises
\* it by exactly 1 and gives the new vault the vault_index equal to the count
\* before the call; the indices of the existing vaults are exactly
\* 0 .. vault_count - 1, each once; a rejected create_vault leaves vault_count
\* as it is.
C23_VaultCountCountsVaults ==
    /\ []VaultCountMatchesVaults
    /\ [][/\ factory'.vault_count >= factory.vault_count
          /\ vault_pdas' # vault_pdas =>
                /\ factory'.vault_count = factory.vault_count + 1
                /\ vault_pdas' = vault_pdas \cup {factory.vault_count}]_vars

\* A vault exists and a further create_vault is accepted: it takes the index
\* 1 = vault_count and leaves vault_count 2; another is rejected and leaves
\* the count as it is.
C23_SecondVaultTakesNextIndex ==
    /\ vault.initialized
    /\ factory.vault_count = 1
    /\ \E p \in AnyVaultParams :
         LET r == create_vault_result(CREATOR, p, TRUE)
         IN r.ok /\ r.vault_index = 1 /\ r.factory.vault_count = 2
    /\ \E p \in AnyVaultParams :
         LET r == create_vault_result(CREATOR, p, TRUE)
         IN ~r.ok /\ r.factory.vault_count = 1

----------------------------------------------------------------------------
(* C24 *)

\* Lists of MAX_UNDERLYING_ASSETS entries and of one more, each summing to
\* MAX_BPS.
LongVaultParams ==
    { VaultParams(4, 3, [i \in 1..MAX_UNDERLYING_ASSETS |->
                            IF i = 1 THEN 440 ELSE 40], 100),
      VaultParams(4, 3, [i \in 1..(MAX_UNDERLYING_ASSETS + 1) |->
                            IF i = 1 THEN 400 ELSE 40], 100) }

RECURSIVE TrueSumOver(_, _, _)
TrueSumOver(a, lo, hi) ==
    IF lo > hi THEN 0
    ELSE IF lo = hi THEN a[lo]
    ELSE TrueSumOver(a, lo, (lo + hi) \div 2) + TrueSumOver(a, (lo + hi) \div 2 + 1, hi)

\* The sum of a list of mint_bps as mathematical integers.
TrueSum(a) == TrueSumOver(a, 1, Len(a))

\* The list a has MIN_UNDERLYING_ASSETS to MAX_UNDERLYING_ASSETS entries that
\* sum to MAX_BPS.
FullAllocation(a) ==
    /\ Len(a) >= MIN_UNDERLYING_ASSETS
    /\ Len(a) <= MAX_UNDERLYING_ASSETS
    /\ TrueSum(a) = MAX_BPS

\* C24: every vault that exists has between 1 and 240 underlying assets whose
\* mint_bps sum, as mathematical integers, to exactly 10000; create_vault
\* rejects every list whose true sum differs, lists whose 16-bit running sum
\* wraps to 10000 included.
C24_BpsSumExact ==
    /\ vault.initialized => FullAllocation(vault.underlying_assets)
    /\ \A p \in AnyVaultParams \cup LongVaultParams, overflow_checks \in BOOLEAN :
          LET r == create_vault_result(CREATOR, p, overflow_checks)
          IN r.ok => FullAllocation(r.vault.underlying_assets)

\* In a build without overflow checks create_vault accepts the list
\* (40000, 35536), whose true sum is 75536 and whose 16-bit sum is 10000.
C24_WrappingListAccepted ==
    LET r == create_vault_result(CREATOR, VaultParams(4, 3, <<40000, 35536>>, 100),
                                 FALSE)
    IN /\ r.ok
       /\ TrueSum(r.vault.underlying_assets) = 75536
       /\ SumBps(r.vault.underlying_assets, FALSE) = MAX_BPS
       /\ ~create_vault_result(CREATOR, VaultParams(4, 3, <<40000, 35536>>, 100),
                               TRUE).ok

----------------------------------------------------------------------------
(* C25 *)

\* The fee policy of a factory record: the fields update_factory_fees writes.
FeePolicy(f) ==
    <<f.entry_fee_bps, f.exit_fee_bps, f.vault_creation_fee_usdc,
      f.min_management_fee_bps, f.max_management_fee_bps,
      f.vault_creator_fee_ratio_bps, f.platform_fee_ratio_bps>>

\* The state part of C25: create_vault succeeds only with management_fees
\* within the factory's bounds of that moment; an update_factory_fees leaves
\* the vault and every balance as they are; and under any accepted new
\* policy the vault goes on accruing total_assets * management_fees *
\* elapsed / (MAX_BPS * year) with its own management_fees.
VaultFeesFixedAtCreation ==
    /\ \A p \in AnyVaultParams, overflow_checks \in BOOLEAN :
          LET r == create_vault_result(CREATOR, p, overflow_checks)
          IN /\ r.ok => /\ factory.min_management_fee_bps <= p.management_fees
                         /\ p.management_fees <= factory.max_management_fee_bps
                         /\ r.vault.management_fees = p.management_fees
             /\ (factory.initialized
                   /\ ~(factory.min_management_fee_bps <= p.management_fees
                        /\ p.management_fees <= factory.max_management_fee_bps))
                  => (~r.ok /\ r.factory = factory /\ r.usdc = usdc)
    /\ vault.initialized =>
          \A d \in Delays :
            d > 0 /\ vault.total_assets > 0 =>
              LET v1 == accrue_management_fees(vault, now + d)
                  fee == (vault.total_assets * vault.management_fees
                            * (now + d - vault.last_fee_accrual_ts))
                         \div (MAX_BPS * DAYS_PER_YEAR)
              IN (fee <= vault.total_assets
                    /\ FitsU64(vault.accrued_management_fees_usdc + fee)) =>
                    /\ v1.accrued_management_fees_usdc
                         = vault.accrued_management_fees_usdc + fee
                    /\ v1.management_fees = vault.management_fees

\* C25: create_vault is rejected unless factory.min_management_fee_bps <=
\* management_fees <= factory.max_management_fee_bps at the time of the call;
\* a step that changes the factory's fee policy changes neither the vault
\* record nor any balance, so an existing vault may hold a management_fees
\* outside the new bounds, and it keeps accruing at its own rate.
C25_FeeBoundsCheckedAtCreationOnly ==
    /\ []VaultFeesFixedAtCreation
    /\ [][FeePolicy(factory') # FeePolicy(factory) =>
            /\ vault' = vault
            /\ usdc' = usdc /\ shares' = shares /\ asset' = asset]_vars

\* The factory's maximum has been lowered below the management_fees of the
\* existing vault: a fee is pending at the vault's own rate, and a new
\* create_vault with that rate would be rejected.
C25_VaultAboveNewMaximum ==
    /\ AccountsExist
    /\ vault.management_fees > factory.max_management_fee_bps
    /\ vault.total_assets > 0
    /\ now > vault.last_fee_accrual_ts
    /\ accrue_management_fees(vault, now).accrued_management_fees_usdc
         > vault.accrued_management_fees_usdc
    /\ create_vault_result(CREATOR,
                           VaultParams(4, 3, <<6000, 4000>>, vault.management_fees),
                           TRUE).err = "InvalidManagementFees"

----------------------------------------------------------------------------
(* C26 *)

\* The configuration of a vault record.
VaultConfig(v) ==
    <<v.initialized, v.vault_index, v.factory, v.admin, v.vault_name,
      v.vault_symbol, v.management_fees, v.underlying_assets>>

\* Prices a caller may give for the underlying asset.
AnyAssetPrice == {0, 1, USD_PRICE_SCALE}

\* The state part of C26: whatever request it is given, no handler leaves the
\* existing vault with another configuration.
ConfigKeptByEveryHandler ==
    vault.initialized =>
      LET kept(r) == VaultConfig(r.vault) = VaultConfig(vault)
      IN /\ \A a \in AnyAmount, p \in AnyPrice : kept(deposit_result(USER, a, p))
         /\ \A n \in AnyShares, p \in AnyPrice, f \in AnyFeeAccount :
              kept(finalize_redeem_result(USER, n, p, f))
         /\ \A signer \in Identities, paused \in BOOLEAN :
              kept(set_vault_paused_result(signer, paused))
         /\ \A d \in AnyDestinations :
              kept(collect_weekly_management_fees_result(d[1], d[2]))
         /\ \A p \in AnyPrice, a \in AnyFeeAmount, d \in AnyDestinations :
              kept(distribute_accrued_fees_result(p, a, d[1], d[2]))
         /\ \A signer \in Identities, p \in AnyPrice, a \in AnyFeeAmount :
              kept(claim_management_fee_result(signer, p, a))
         /\ \A signer \in Identities :
              /\ kept(execute_swaps_result(signer))
              /\ \A a \in AnyAmount : kept(transfer_vault_to_user_result(signer, a))
         /\ \A p \in AnyAssetPrice : kept(get_accrued_management_fees_result(p))
         /\ \A d \in Delays : kept([vault |-> accrue_management_fees(vault, now + d)])

\* C26: once create_vault has written them, vault_index, factory, admin,
\* vault_name, vault_symbol, management_fees and underlying_assets of the
\* vault are the same in every later state, whatever deposits, redeems,
\* pauses, swaps, transfers, fee operations and factory updates follow.
C26_VaultConfigNeverChanges ==
    /\ []ConfigKeptByEveryHandler
    /\ [][vault.initialized => VaultConfig(vault') = VaultConfig(vault)]_vars

\* Long after its creation the vault has taken a deposit, accrued fees,
\* minted fee shares, had custody moved out and been paused, under a factory
\* policy that has changed since; its configuration is the one create_vault
\* wrote.
C26_ConfigAfterManyOperations ==
    /\ AccountsExist
    /\ now > vault.created_at
    /\ vault.state = "Paused"
    /\ vault.accrued_management_fees_usdc > 0
    /\ vault.total_supply > SEED_SUPPLY
    /\ usdc[VAULT_PDA] < vault.total_assets + vault.accrued_management_fees_usdc
    /\ factory.max_management_fee_bps < vault.management_fees
    /\ VaultConfig(vault)
         = VaultConfig(NewVault(VaultParams(4, 3, <<6000, 4000>>, 2000), CREATOR, 0,
                                vault.created_at))

----------------------------------------------------------------------------
(* C27 *)

\* The vault is fully settled: it holds no underlying asset, and its custody
\* of settlement tokens is what the ledger records, total_assets plus the
\* fees accrued and not yet paid.
FullySettled ==
    /\ AccountsExist
    /\ asset[VAULT_PDA] = 0
    /\ usdc[VAULT_PDA] = vault.total_assets + vault.accrued_management_fees_usdc

\* C27: on a fully settled vault, get_accrued_management_fees and
\* accrue_management_fees run at the same time from the same state compute
\* the same newly accrued fee and leave the same total_assets,
\* accrued_management_fees_usdc and last_fee_accrual_ts.
C27_AccrualPathsAgree ==
    \A d \in Delays, price_usd \in AnyAssetPrice :
        LET ledger == accrue_management_fees(vault, now + d)
            live == get_accrued_management_fees_on(vault, usdc, asset, now + d,
                                                   price_usd)
        IN FullySettled =>
            /\ live.ok
            /\ live.newly_accrued_fees
                 = ledger.accrued_management_fees_usdc
                     - vault.accrued_management_fees_usdc
            /\ live.vault.total_assets = ledger.total_assets
            /\ live.vault.accrued_management_fees_usdc
                 = ledger.accrued_management_fees_usdc
            /\ live.vault.last_fee_accrual_ts = ledger.last_fee_accrual_ts

\* A fully settled vault with no fee accrued yet and time elapsed: both paths
\* compute the same positive fee and the same accrued amount and timestamp,
\* the ledger path takes the fee out of total_assets and the live path
\* leaves total_assets as it was.
C27_LivePathKeepsTotalAssets ==
    /\ FullySettled
    /\ vault.accrued_management_fees_usdc = 0
    /\ LET ledger == accrue_management_fees(vault, now)
           live == get_accrued_management_fees_on(vault, usdc, asset, now, 0)
       IN /\ live.ok
          /\ live.newly_accrued_fees > 0
          /\ live.newly_accrued_fees = ledger.accrued_management_fees_usdc
          /\ live.vault.last_fee_accrual_ts = ledger.last_fee_accrual_ts
          /\ ledger.total_assets = vault.total_assets - live.newly_accrued_fees
          /\ live.vault.total_assets = vault.total_assets

----------------------------------------------------------------------------
(* C28 *)

\* The deposit of the scenario: 1,000,000,000 units at share price 1,000,000
\* with entry_fee_bps = exit_fee_bps = 25 and 6 decimals.
ScenarioDeposit ==
    LET amount == BigFromInt(1000000000)
        price == 1000000
        bps == BigFromInt(25)
        net == WideNetDeposit(amount, bps)
        minted == WideTokensForAmount(net, price)
    IN [entry_fee |-> WideEntryFee(amount, bps), net |-> net, shares |-> minted,
        gross |-> WideGrossProceeds(minted, price),
        exit_fee |-> WideExitFee(WideGrossProceeds(minted, price), bps),
        net_to_user |-> WideNetToUser(WideGrossProceeds(minted, price), bps)]

\* The fee rates a factory can be given.
AnyFeeRates ==
    {p.entry_fee_bps : p \in InitialFeeInputs} \cup {p.exit_fee_bps : p \in InitialFeeInputs}

\* The amounts the formulas give at full width for the request (a, p) under
\* the entry rate e and the exit rate x.
WideAmounts ==
    [a \in AnyAmount, p \in AnyPrice, e \in AnyFeeRates, x \in AnyFeeRates |->
        LET net == WideNetDeposit(BigFromInt(a), BigFromInt(e))
            gross == WideGrossProceeds(BigFromInt(a), p)
        IN [entry_fee |-> WideEntryFee(BigFromInt(a), BigFromInt(e)),
            net |-> net,
            shares |-> WideTokensForAmount(net, p),
            gross |-> gross,
            exit_fee |-> WideExitFee(gross, BigFromInt(x))]]

\* In this state the amounts deposit and finalize_redeem compute for the
\* request (a, p) are the ones the formulas give at full width, wherever the
\* narrowed u64 of the model holds them.
WideAgreesWithHandlers(a, p) ==
    LET wide == WideAmounts[a, p, factory.entry_fee_bps, factory.exit_fee_bps]
    IN /\ wide.entry_fee = BigFromInt(EntryFee(a))
       /\ wide.net = BigFromInt(NetDeposit(a))
       /\ BigLess(wide.shares, BigFromInt(U64_MAX))
            => wide.shares = BigFromInt(TokensForAmount(NetDeposit(a), p))
       /\ BigLess(wide.gross, BigFromInt(U64_MAX)) =>
            /\ wide.gross = BigFromInt(GrossProceeds(a, p))
            /\ wide.exit_fee = BigFromInt(ExitFee(GrossProceeds(a, p)))

\* C28: with entry_fee_bps = exit_fee_bps = 25 and a 6-decimal share token, a
\* deposit of 1,000,000,000 at share price 1,000,000 gives entry_fee
\* 2,500,000, net 997,500,000 and 997,500,000 shares; redeeming all of them at
\* the same price gives gross 997,500,000, exit_fee 2,493,750 and net_to_user
\* 995,006,250.  The formulas that give these amounts are the ones the
\* handlers of every reachable state compute with.
C28_DepositRedeemScenario ==
    /\ ScenarioDeposit.entry_fee = BigFromInt(2500000)
    /\ ScenarioDeposit.net = BigFromInt(997500000)
    /\ ScenarioDeposit.shares = BigFromInt(997500000)
    /\ ScenarioDeposit.gross = BigFromInt(997500000)
    /\ ScenarioDeposit.exit_fee = BigFromInt(2493750)
    /\ ScenarioDeposit.net_to_user = BigFromInt(995006250)
    /\ factory.initialized =>
         \A a \in AnyAmount, p \in AnyPrice : WideAgreesWithHandlers(a, p)

\* The user has deposited at par under an entry fee of 25 bps and holds the
\* shares of the net amount, which the formulas at full width give as well;
\* in the scenario both fees are charged and the exit fee, taken from the
\* smaller gross amount, is the lower one.
C28_DepositAtParThenRedeemAll ==
    /\ AccountsExist
    /\ factory.entry_fee_bps = 25
    /\ \E a \in AnyAmount :
         /\ a > 0
         /\ shares[USER] = TokensForAmount(NetDeposit(a), PAR)
         /\ BigFromInt(shares[USER])
              = WideTokensForAmount(WideNetDeposit(BigFromInt(a), BigFromInt(25)),
                                    PAR)
         /\ finalize_redeem_result(USER, shares[USER], PAR, PLATFORM).ok
    /\ BigLess(ScenarioDeposit.exit_fee, ScenarioDeposit.entry_fee)
    /\ BigLess(ScenarioDeposit.net_to_user, ScenarioDeposit.shares)

----------------------------------------------------------------------------
(* C29 *)

\* The accrual of the scenario: total_assets 1,000,000,000,000, no fee
\* accrued yet, management_fees 100 bps, 31,536,000 seconds elapsed.
ScenarioAccrual ==
    WideAccrue(BigMul(BigFromInt(1000000), BigFromInt(1000000)), <<>>,
               BigFromInt(100), BigFromInt(31536000))

\* In this state the fee accrue_management_fees charges after d days is the
\* one the formula gives at full width for 86400 * d seconds.
WideAgreesWithAccrual(d) ==
    LET elapsed == now + d - vault.last_fee_accrual_ts
        wide == WideAccruedFee(BigFromInt(vault.total_assets),
                               BigFromInt(vault.management_fees),
                               BigMul(BigFromInt(86400), BigFromInt(elapsed)))
    IN elapsed > 0 => wide = BigFromInt(AccruedFee(vault, now + d))

\* C29: with total_assets = 1,000,000,000,000, management_fees = 100 bps and
\* exactly 31,536,000 seconds elapsed, the accrual adds 10,000,000,000 to
\* accrued_management_fees_usdc and leaves total_assets = 990,000,000,000.
\* The formula is the one the accrual of every reachable state computes with.
C29_AccrualScenario ==
    /\ ScenarioAccrual.accrued_management_fees_usdc
         = BigMul(BigFromInt(100000), BigFromInt(100000))
    /\ ScenarioAccrual.total_assets
         = BigMul(BigFromInt(990000), BigFromInt(1000000))
    /\ BigFromInt(SECONDS_PER_YEAR) = BigFromInt(31536000)
    /\ vault.initialized => \A d \in Delays : WideAgreesWithAccrual(d)

\* The vault holds assets and time has passed since its last accrual: the
\* accrual charges a positive fee, the one the formula gives at full width;
\* in the scenario a full year at 100 bps charges one hundredth of the assets.
C29_YearOfFeesCharged ==
    /\ AccountsExist
    /\ vault.total_assets > 0
    /\ now > vault.last_fee_accrual_ts
    /\ AccruedFee(vault, now) > 0
    /\ WideAgreesWithAccrual(0)
    /\ BigMul(ScenarioAccrual.accrued_management_fees_usdc, BigFromInt(100))
         = BigMul(BigFromInt(1000000), BigFromInt(1000000))

----------------------------------------------------------------------------
(* C30 *)

\* Signers who are neither the vault admin nor the factory admin.
NonAdmins == Identities \ {vault.admin, factory.admin}

\* C30: tokens leave the vault's token accounts on the word of the vault admin
\* or the factory admin only: a transfer_vault_to_user or a
\* withdraw_underlying_to_user signed by anyone else is rejected and moves
\* nothing.
C30_CustodyMovesOnAdminWordOnly ==
    AccountsExist =>
        \A signer \in NonAdmins :
            /\ \A a \in AnyAmount :
                 LET r == transfer_vault_to_user_result(signer, a)
                 IN ~r.ok /\ r.usdc = usdc
            /\ \A a \in 1..AssetFunds :
                 LET r == withdraw_underlying_to_user_result(signer, a)
                 IN ~r.ok /\ r.asset = asset

\* The user, who is neither the vault admin nor the factory admin, has taken
\* the vault's holding of the underlying asset with
\* withdraw_underlying_to_user, while the same user's transfer_vault_to_user is
\* rejected as Unauthorized.
C30_NonAdminWithdrewUnderlying ==
    /\ AccountsExist
    /\ USER \in NonAdmins
    /\ asset[VAULT_PDA] = 0
    /\ asset[USER] = AssetFunds
    /\ vault.state = "Active"
    /\ \A a \in AnyAmount : transfer_vault_to_user_result(USER, a).err = "Unauthorized"

----------------------------------------------------------------------------
(* C31 *)

\* The shares the outcome r mints: the growth of the vault mint's supply.
MintedBy(r) == MintSupply(r.shares) - MintSupply(shares)

\* The outcome r of a share-mode fee payout of management_fees_amount at
\* share_price mints no more than the shares of the fees accrued on chain.
WithinAccrued(r, share_price, management_fees_amount) ==
    (r.ok /\ MintedBy(r) > 0) =>
        /\ management_fees_amount <= vault.accrued_management_fees_usdc
        /\ MintedBy(r) <= TokensForAmount(vault.accrued_management_fees_usdc,
                                          share_price)

\* C31: the shares distribute_accrued_fees or claim_management_fee mint never
\* stand for more settlement value than the vault's
\* accrued_management_fees_usdc at the time of the call: a call whose
\* management_fees_amount exceeds the accrued amount mints no shares for the
\* excess.
C31_FeeSharesBoundedByAccrued ==
    AccountsExist =>
        \A p \in {0, PAR}, a \in AnyFeeAmount :
            /\ \A d \in AnyDestinations :
                 WithinAccrued(distribute_accrued_fees_result(p, a, d[1], d[2]), p, a)
            /\ WithinAccrued(claim_management_fee_result(vault.admin, p, a), p, a)

\* Nothing is accrued on the vault, and both handlers called with
\* management_fees_amount = 100 at par succeed and mint 100 shares.
C31_SharesMintedWithNothingAccrued ==
    /\ AccountsExist
    /\ vault.accrued_management_fees_usdc = 0
    /\ LET r == distribute_accrued_fees_result(PAR, 100, CREATOR, PLATFORM)
       IN r.ok /\ MintedBy(r) = 100
    /\ LET r == claim_management_fee_result(vault.admin, PAR, 100)
       IN r.ok /\ MintedBy(r) = 100

----------------------------------------------------------------------------
(* C32 *)

\* The sequences of create_vault, deposit, finalize_redeem and
\* collect_weekly_management_fees on an initialized factory, with time
\* passing in between: no admin transfer, no swap, no share-mode distribution.
LedgerNext ==
    \/ initialize_factory
    \/ create_vault
    \/ deposit
    \/ finalize_redeem
    \/ collect_weekly_management_fees
    \/ Tick

LedgerSpec == Init /\ [][LedgerNext]_vars

\* The vault record v is backed by the custody balance.
Backed(v) == usdc[VAULT_PDA] = v.total_assets + v.accrued_management_fees_usdc

\* C32: in every state reached by create_vault, deposit, finalize_redeem, the
\* accrual and collect_weekly_management_fees alone, and after an accrual run
\* any time later, the vault's settlement-token custody balance equals
\* total_assets + accrued_management_fees_usdc.
C32_AccruedFeesBacked ==
    AccountsExist =>
        \A d \in Delays : Backed(accrue_management_fees(vault, now + d))

\* The vault is backed and holds assets; the accrual run MaxDelay days later
\* charges more than total_assets, leaves total_assets as it is and records
\* the whole fee as accrued: the two together exceed custody by the fee.
C32_AccrualBeyondAssetsUnbacked ==
    /\ AccountsExist
    /\ Backed(vault)
    /\ vault.total_assets > 0
    /\ LET v == accrue_management_fees(vault, now + MaxDelay)
           fee == AccruedFee(vault, now + MaxDelay)
       IN /\ fee > vault.total_assets
          /\ v.total_assets = vault.total_assets
          /\ v.accrued_management_fees_usdc = vault.accrued_management_fees_usdc + fee
          /\ v.total_assets + v.accrued_management_fees_usdc = usdc[VAULT_PDA] + fee

----------------------------------------------------------------------------
(* C33 *)

\* C33: in every reachable state vault.total_supply equals the sum of all
\* holders' share-token balances: the seed in the vault's own account and the
\* balances of every depositor and fee recipient.
C33_RecordedSupplyIsTokenSupply ==
    /\ ~vault.initialized => MintSupply(shares) = 0
    /\ vault.initialized =>
         /\ vault.total_supply = MintSupply(shares)
         /\ vault.total_supply
              = shares[VAULT_PDA] + SumOver(shares, Identities)
         /\ shares[VAULT_PDA] = SEED_SUPPLY

\* The seed sits in the vault's account, the user holds the shares of a
\* deposit of 400 at par less the 100 redeemed at par, and the creator and
\* the platform hold fee shares: the recorded supply is the sum of the four balances.
C33_SupplyAfterDepositRedeemAndFeeShares ==
    /\ AccountsExist
    /\ shares[USER] = TokensForAmount(NetDeposit(400), PAR) - 100
    /\ shares[USER] > 0
    /\ usdc[USER] = UserFunds - 400 + GrossProceeds(100, PAR)
                      - ExitFee(GrossProceeds(100, PAR))
    /\ shares[CREATOR] > 0
    /\ shares[PLATFORM] > 0
    /\ vault.total_supply
         = SEED_SUPPLY + shares[USER] + shares[CREATOR] + shares[PLATFORM]

----------------------------------------------------------------------------
(* C34 *)

\* C34: finalize_redeem has no token instruction executed before every
\* insufficient-resource check has passed: the burn and the two transfers
\* come only after the redeemer's share balance, total_supply > 0 and
\* custody >= net_to_user have been checked with success, so a redeem that
\* fails has moved nothing on the way.
C34_NoTokenMovementBeforeChecks ==
    AccountsExist =>
        \A n \in AnyShares, p \in AnyPrice, f \in AnyFeeAccount :
            LET v1 == accrue_management_fees(vault, now)
                net_to_user == GrossProceeds(n, p) - ExitFee(GrossProceeds(n, p))
                cpis == finalize_redeem_cpis(vault, usdc, shares, now, USER, n, p, f)
            IN /\ cpis # <<>> =>
                    /\ shares[USER] >= n
                    /\ v1.total_supply > 0
                    /\ usdc[VAULT_PDA] >= net_to_user
               /\ ~finalize_redeem_result(USER, n, p, f).ok => cpis = <<>>

\* The user holds shares and custody is short of net_to_user: a redeem of all
\* the user's shares at par has them burned, then fails the custody
\* requirement with InsufficientFunds.
C34_BurnBeforeCustodyCheck ==
    /\ AccountsExist
    /\ shares[USER] > 0
    /\ shares[USER] <= vault.total_assets
    /\ LET r == finalize_redeem_result(USER, shares[USER], PAR, PLATFORM)
       IN /\ ~r.ok
          /\ r.err = "InsufficientFunds"
          /\ finalize_redeem_cpis(vault, usdc, shares, now, USER, shares[USER],
                                  PAR, PLATFORM) = <<"burn">>

----------------------------------------------------------------------------
(* C35 *)

\* The recorded totals of the vault record v are u64 values, not wrapped
\* below zero.
TotalsInRange(v) ==
    /\ v.total_assets >= 0 /\ FitsU64(v.total_assets)
    /\ v.total_supply >= 0 /\ FitsU64(v.total_supply)

\* C35: a finalize_redeem whose gross proceeds exceed the recorded
\* total_assets, or whose share count exceeds total_supply, fails as a whole:
\* no shares are burned, nothing is paid out, total_assets and total_supply
\* are unchanged; and neither total is ever left wrapped below zero.  No
\* reachable vault records a total_supply below a holder's balance, so the
\* second case is looked at on the vault record with total_supply set to 1.
C35_RedeemBeyondTotalsFails ==
    /\ TotalsInRange(vault)
    /\ AccountsExist =>
         \A n \in AnyShares, p \in AnyPrice :
            LET v1 == accrue_management_fees(vault, now)
                r == finalize_redeem_result(USER, n, p, PLATFORM)
            IN /\ (GrossProceeds(n, p) > v1.total_assets \/ n > v1.total_supply)
                    => ~r.ok /\ Untouched(r)
               /\ TotalsInRange(r.vault)
               /\ LET short == [vault EXCEPT !.total_supply = 1]
                      rs == finalize_redeem_at(short, now, USER, n, PAR, PLATFORM)
                  IN /\ n > 1 => ~rs.ok /\ Untouched(rs)
                     /\ TotalsInRange(rs.vault)

\* Fees have accrued, so custody exceeds the recorded total_assets: a redeem
\* of all the user's shares at par passes every check and both transfers,
\* its gross proceeds exceed total_assets, and it fails on the subtraction;
\* so does a redeem of 100 shares were total_supply 1.
C35_GrossAboveTotalAssetsPanics ==
    /\ AccountsExist
    /\ shares[USER] > 0
    /\ shares[USER] <= usdc[VAULT_PDA]
    /\ LET v1 == accrue_management_fees(vault, now)
           r == finalize_redeem_result(USER, shares[USER], PAR, PLATFORM)
       IN /\ GrossProceeds(shares[USER], PAR) > v1.total_assets
          /\ GrossProceeds(shares[USER], PAR) <= usdc[VAULT_PDA]
          /\ r.err = "Panic"
          /\ Untouched(r)
    /\ shares[USER] >= 100
    /\ finalize_redeem_at([vault EXCEPT !.total_supply = 1], now, USER, 100, PAR,
                          PLATFORM).err = "Panic"

----------------------------------------------------------------------------
(* C36 *)

\* The shares the formula gives for a net amount at share_price:
\* floor(net * 10^6 / share_price), and net itself at share_price 0.
SharesByFormula(net, share_price) ==
    IF share_price = 0 THEN net ELSE (net * SCALE) \div share_price

\* The same for one fee share of a share-mode payout.
FeeSharesByFormula(share_usdc, share_price) ==
    IF share_usdc > 0 THEN SharesByFormula(share_usdc, share_price) ELSE 0

\* A net deposit of 19,950,000,000,000 (20,000,000,000,000 less the entry fee
\* of 25 bps), at full width.
LargeNetDeposit == BigMul(BigFromInt(19950000), BigFromInt(1000000))

\* The shares deposit mints for it at share price 1.
LargeDepositShares == WideTokensForAmount(LargeNetDeposit, 1)

\* floor(net * 10^6 / 1) for it, less 2^64.
LargeDepositQuotientNarrowed ==
    BigSub(BigMul(LargeNetDeposit, BigFromInt(SCALE)), WIDE_U64_MODULUS)

\* C36: the shares a deposit mints are floor(net * 10^6 / etf_share_price)
\* when etf_share_price > 0 and exactly net when it is 0;
\* distribute_accrued_fees and claim_management_fee convert each fee share
\* with the same formula and the same fallback.
C36_SharesMintedByFormula ==
    AccountsExist =>
        \A p \in AnyPrice :
            /\ \A a \in AnyAmount :
                 LET r == deposit_result(USER, a, p)
                 IN r.ok => MintedBy(r) = SharesByFormula(NetDeposit(a), p)
            /\ \A a \in AnyFeeAmount :
                 LET rd == distribute_accrued_fees_result(p, a, CREATOR, PLATFORM)
                     rc == claim_management_fee_result(vault.admin, p, a)
                     minted == FeeSharesByFormula(CreatorShare(a), p)
                                 + FeeSharesByFormula(PlatformShare(a), p)
                 IN /\ (rd.ok /\ ~NothingToPrice(vault)) => MintedBy(rd) = minted
                    /\ (rc.ok /\ ~NothingToPrice(vault)) => MintedBy(rc) = minted

\* The user has deposited 400 at share price 1 and holds the quotient
\* narrowed to u64, which is less than floor(net * 10^6 / 1); at full width a
\* net deposit of 19,950,000,000,000 at share price 1 mints the quotient less
\* 2^64.
C36_QuotientNarrowedOnMint ==
    /\ AccountsExist
    /\ usdc[USER] = UserFunds - 400
    /\ shares[USER] = TokensForAmount(NetDeposit(400), 1)
    /\ shares[USER] < SharesByFormula(NetDeposit(400), 1)
    /\ LargeDepositShares = LargeDepositQuotientNarrowed

----------------------------------------------------------------------------
(* C37 *)

\* C37: a deposit that succeeds and moves a positive net amount into vault
\* custody mints at least one share unit to the depositor, for every
\* amount > 0 and every share price.
C37_DepositMintsForValue ==
    AccountsExist =>
        \A a \in AnyAmount, p \in AnyPrice :
            LET r == deposit_result(USER, a, p)
            IN (r.ok /\ r.usdc[VAULT_PDA] > usdc[VAULT_PDA])
                   => r.shares[USER] >= shares[USER] + 1

\* A deposit of 1 at share price 2,000,000 succeeds: custody and
\* total_assets grow by 1, the user pays 1, and the user's shares and
\* total_supply stay as they are.
C37_DepositOfOneMintsNothing ==
    /\ AccountsExist
    /\ LET r == deposit_result(USER, 1, 2 * PAR)
           v1 == accrue_management_fees(vault, now)
       IN /\ r.ok
          /\ r.usdc[VAULT_PDA] = usdc[VAULT_PDA] + 1
          /\ r.usdc[USER] = usdc[USER] - 1
          /\ r.vault.total_assets = v1.total_assets + 1
          /\ r.shares = shares
          /\ r.vault.total_supply = vault.total_supply

----------------------------------------------------------------------------
(* C38 *)

\* The factory changing hands: initialize_factory, update_factory_admin,
\* update_factory_fees, create_vault and set_vault_paused, with time passing
\* in between.
AdminNext ==
    \/ initialize_factory
    \/ update_factory_admin
    \/ update_factory_fees
    \/ create_vault
    \/ set_vault_paused
    \/ Tick

AdminSpec == Init /\ [][AdminNext]_vars

\* In this state set_vault_paused is rejected as Unauthorized, the vault
\* unchanged, for every signer but the factory admin, and the factory admin's
\* pause is accepted.
PauseOnFactoryAdminWordOnly ==
    AccountsExist =>
        /\ \A signer \in Identities \ {factory.admin}, paused \in BOOLEAN :
             LET r == set_vault_paused_result(signer, paused)
             IN ~r.ok /\ r.err = "Unauthorized" /\ r.vault = vault
        /\ LET r == set_vault_paused_result(factory.admin, TRUE)
           IN r.ok /\ r.vault.state = "Paused"

\* A step that changes the vault's state is taken on the word of the factory
\* admin of the moment; after a step that changes the factory admin the
\* previous admin is rejected and the new one accepted.
AdminStep ==
    /\ (AccountsExist /\ vault'.state # vault.state) =>
          \E paused \in BOOLEAN :
             vault' = set_vault_paused_result(factory.admin, paused).vault
    /\ (AccountsExist /\ factory'.admin # factory.admin) =>
          \A previous \in Identities :
             previous = factory.admin =>
                /\ (set_vault_paused_result(previous, TRUE).err)' = "Unauthorized"
                /\ (set_vault_paused_result(previous, FALSE).err)' = "Unauthorized"
                /\ (set_vault_paused_result(factory.admin, TRUE).ok)'

\* C38: set_vault_paused changes a vault's state only when signed by the
\* current factory admin; any other signer, the vault's own admin included
\* when it is not the factory admin, is rejected with the vault unchanged;
\* after update_factory_admin the previous factory admin is rejected and the
\* new one accepted.
C38_PauseByCurrentFactoryAdminOnly ==
    []PauseOnFactoryAdminWordOnly /\ [][AdminStep]_vars

\* The factory admin has been changed to the user, who has paused the vault:
\* the previous factory admin and the vault's admin are both rejected, and
\* the user's resume is accepted.
C38_NewAdminPausedOldRejected ==
    /\ AccountsExist
    /\ factory.admin = USER
    /\ vault.admin = CREATOR
    /\ vault.state = "Paused"
    /\ set_vault_paused_result(FADMIN, FALSE).err = "Unauthorized"
    /\ set_vault_paused_result(CREATOR, FALSE).err = "Unauthorized"
    /\ set_vault_paused_result(USER, FALSE).ok

----------------------------------------------------------------------------
(* C39 *)

VaultStates == {"Active", "Paused", "Closed"}
FactoryStates == {"Active", "Paused", "Deprecated"}

\* The signer passes the validations of the two handlers only on an Active
\* vault of an Active factory and as the admin of one of the two.
AdminGatePassesOnlyActiveAdmins ==
    \A vs \in VaultStates, fs \in FactoryStates, signer \in Identities :
        LET v == [vault EXCEPT !.state = vs]
            f == [factory EXCEPT !.state = fs]
        IN AdminGateErrorIn(v, f, signer) = ""
             <=> /\ vs = "Active"
                 /\ fs = "Active"
                 /\ signer \in {v.admin, f.admin}

\* C39: execute_swaps and transfer_vault_to_user succeed only when vault and
\* factory are Active, the signer is the vault admin or the factory admin, and
\* custody is non-zero (execute_swaps) or at least amount
\* (transfer_vault_to_user).  Both leave every field of the Vault record
\* unchanged: transfer_vault_to_user lowers custody by amount while
\* total_assets, total_supply and accrued_management_fees_usdc stay.
C39_AdminOpsGuardedAndFrame ==
    AccountsExist =>
        /\ AdminGatePassesOnlyActiveAdmins
        /\ \A signer \in Identities :
             /\ LET r == execute_swaps_result(signer)
                IN /\ r.ok <=> (AdminGateError(signer) = "" /\ usdc[VAULT_PDA] > 0)
                   /\ Untouched(r)
             /\ \A a \in AnyAmount \cup TransferAmounts :
                  LET r == transfer_vault_to_user_result(signer, a)
                  IN /\ r.ok => AdminGateError(signer) = "" /\ usdc[VAULT_PDA] >= a
                     /\ r.vault = vault
                     /\ r.shares = shares
                     /\ r.ok => /\ r.usdc[VAULT_PDA] = usdc[VAULT_PDA] - a
                                /\ r.usdc[signer] = usdc[signer] + a
                                /\ \A o \in Owners \ {VAULT_PDA, signer} :
                                     r.usdc[o] = usdc[o]
                     /\ ~r.ok => r.usdc = usdc

\* The vault admin has taken 300 out of custody with transfer_vault_to_user:
\* custody is 300 short of total_assets + accrued_management_fees_usdc, which
\* stay as the deposit left them; the admin's execute_swaps passes, the
\* user's is rejected as Unauthorized.
C39_AdminTookCustodyRecordUnchanged ==
    /\ AccountsExist
    /\ vault.state = "Active"
    /\ usdc[CREATOR] >= 300
    /\ usdc[VAULT_PDA] > 0
    /\ usdc[VAULT_PDA] + 300
         = vault.total_assets + vault.accrued_management_fees_usdc
    /\ vault.total_assets = NetDeposit(400)
    /\ execute_swaps_result(CREATOR).ok
    /\ execute_swaps_result(USER).err = "Unauthorized"
    /\ transfer_vault_to_user_result(CREATOR, 100).err = "InsufficientFunds"

=============================================================================
